---- MODULE Spec2Model ----
(***************************************************************************)
(* Payment-gated NFT minting pipeline of the quiz bot backend.             *)
(*                                                                         *)
(* The store is a relational database used under read-committed            *)
(* isolation.  Every request handler runs with a session of its own: what  *)
(* a session has flushed but not committed is kept in the handler's        *)
(* overlay (proc[p].pay / .tx / .res / .meta) and is merged into the       *)
(* committed tables by a commit and dropped by a rollback.  Unique         *)
(* indexes are checked at flush time; a flush that meets an uncommitted    *)
(* conflicting row of another session waits for that session to finish.    *)
(***************************************************************************)
EXTENDS Integers, Sequences, FiniteSets, TLC

\* ---------------------------------------------------------------- bounds
NumProcs == 2
NumCallers == 3
NumResults == 1
MaxQuizzes == 1
MaxPayments == 2
MaxTxs == 2
MaxClock == 2

\* ------------------------------------------------------ program constants
max_retries == 3
NFT_MINT_PRICE_STARS == 10
NFT_MINT_PRICE_NANOTON == 100000000
STARS_ENABLED == TRUE
TON_PAYMENT_ENABLED == FALSE

Handlers == 1..NumProcs
Callers == 1..NumCallers
Procs == Handlers \cup Callers
Results == 1..NumResults
PaymentIds == 1..MaxPayments
TxIds == 1..MaxTxs
Users == {1, 2}
\* the quizzes of the seeded database (db/seed.py adds one quiz)
QuizIds == {1}
ProviderArgs == {"telegram_stars", "ton_connect", "paypal"}

NULL == "NULL"
NoTime == 0

\* ids requested by callers: existing ones and one that never exists
AskedResultIds == Results \cup {NumResults + 1}
AskedPaymentIds == PaymentIds \cup {MaxPayments + 1}

\* owner of a quiz result (QuizResult.user_id), fixed at creation
Owner(r) == IF r \in Users THEN r ELSE 1

\* ------------------------------------------------------- payload tokens
\* a string is the sequence of its characters; a character outside ASCII,
\* and an ASCII control character TLA+ has no escape for, is written by its
\* code point ("U+0661")
DigitChars == <<"0", "1", "2", "3", "4", "5", "6", "7", "8", "9">>

\* the characters int() reads as a decimal digit, by value: the ASCII digits
\* and the 65 other runs of ten of the Unicode property Nd (660 characters)
DigitRows ==
    {DigitChars,
     <<"U+0660", "U+0661", "U+0662", "U+0663", "U+0664", "U+0665",
       "U+0666", "U+0667", "U+0668", "U+0669">>,
     <<"U+06F0", "U+06F1", "U+06F2", "U+06F3", "U+06F4", "U+06F5",
       "U+06F6", "U+06F7", "U+06F8", "U+06F9">>,
     <<"U+07C0", "U+07C1", "U+07C2", "U+07C3", "U+07C4", "U+07C5",
       "U+07C6", "U+07C7", "U+07C8", "U+07C9">>,
     <<"U+0966", "U+0967", "U+0968", "U+0969", "U+096A", "U+096B",
       "U+096C", "U+096D", "U+096E", "U+096F">>,
     <<"U+09E6", "U+09E7", "U+09E8", "U+09E9", "U+09EA", "U+09EB",
       "U+09EC", "U+09ED", "U+09EE", "U+09EF">>,
     <<"U+0A66", "U+0A67", "U+0A68", "U+0A69", "U+0A6A", "U+0A6B",
       "U+0A6C", "U+0A6D", "U+0A6E", "U+0A6F">>,
     <<"U+0AE6", "U+0AE7", "U+0AE8", "U+0AE9", "U+0AEA", "U+0AEB",
       "U+0AEC", "U+0AED", "U+0AEE", "U+0AEF">>,
     <<"U+0B66", "U+0B67", "U+0B68", "U+0B69", "U+0B6A", "U+0B6B",
       "U+0B6C", "U+0B6D", "U+0B6E", "U+0B6F">>,
     <<"U+0BE6", "U+0BE7", "U+0BE8", "U+0BE9", "U+0BEA", "U+0BEB",
       "U+0BEC", "U+0BED", "U+0BEE", "U+0BEF">>,
     <<"U+0C66", "U+0C67", "U+0C68", "U+0C69", "U+0C6A", "U+0C6B",
       "U+0C6C", "U+0C6D", "U+0C6E", "U+0C6F">>,
     <<"U+0CE6", "U+0CE7", "U+0CE8", "U+0CE9", "U+0CEA", "U+0CEB",
       "U+0CEC", "U+0CED", "U+0CEE", "U+0CEF">>,
     <<"U+0D66", "U+0D67", "U+0D68", "U+0D69", "U+0D6A", "U+0D6B",
       "U+0D6C", "U+0D6D", "U+0D6E", "U+0D6F">>,
     <<"U+0DE6", "U+0DE7", "U+0DE8", "U+0DE9", "U+0DEA", "U+0DEB",
       "U+0DEC", "U+0DED", "U+0DEE", "U+0DEF">>,
     <<"U+0E50", "U+0E51", "U+0E52", "U+0E53", "U+0E54", "U+0E55",
       "U+0E56", "U+0E57", "U+0E58", "U+0E59">>,
     <<"U+0ED0", "U+0ED1", "U+0ED2", "U+0ED3", "U+0ED4", "U+0ED5",
       "U+0ED6", "U+0ED7", "U+0ED8", "U+0ED9">>,
     <<"U+0F20", "U+0F21", "U+0F22", "U+0F23", "U+0F24", "U+0F25",
       "U+0F26", "U+0F27", "U+0F28", "U+0F29">>,
     <<"U+1040", "U+1041", "U+1042", "U+1043", "U+1044", "U+1045",
       "U+1046", "U+1047", "U+1048", "U+1049">>,
     <<"U+1090", "U+1091", "U+1092", "U+1093", "U+1094", "U+1095",
       "U+1096", "U+1097", "U+1098", "U+1099">>,
     <<"U+17E0", "U+17E1", "U+17E2", "U+17E3", "U+17E4", "U+17E5",
       "U+17E6", "U+17E7", "U+17E8", "U+17E9">>,
     <<"U+1810", "U+1811", "U+1812", "U+1813", "U+1814", "U+1815",
       "U+1816", "U+1817", "U+1818", "U+1819">>,
     <<"U+1946", "U+1947", "U+1948", "U+1949", "U+194A", "U+194B",
       "U+194C", "U+194D", "U+194E", "U+194F">>,
     <<"U+19D0", "U+19D1", "U+19D2", "U+19D3", "U+19D4", "U+19D5",
       "U+19D6", "U+19D7", "U+19D8", "U+19D9">>,
     <<"U+1A80", "U+1A81", "U+1A82", "U+1A83", "U+1A84", "U+1A85",
       "U+1A86", "U+1A87", "U+1A88", "U+1A89">>,
     <<"U+1A90", "U+1A91", "U+1A92", "U+1A93", "U+1A94", "U+1A95",
       "U+1A96", "U+1A97", "U+1A98", "U+1A99">>,
     <<"U+1B50", "U+1B51", "U+1B52", "U+1B53", "U+1B54", "U+1B55",
       "U+1B56", "U+1B57", "U+1B58", "U+1B59">>,
     <<"U+1BB0", "U+1BB1", "U+1BB2", "U+1BB3", "U+1BB4", "U+1BB5",
       "U+1BB6", "U+1BB7", "U+1BB8", "U+1BB9">>,
     <<"U+1C40", "U+1C41", "U+1C42", "U+1C43", "U+1C44", "U+1C45",
       "U+1C46", "U+1C47", "U+1C48", "U+1C49">>,
     <<"U+1C50", "U+1C51", "U+1C52", "U+1C53", "U+1C54", "U+1C55",
       "U+1C56", "U+1C57", "U+1C58", "U+1C59">>,
     <<"U+A620", "U+A621", "U+A622", "U+A623", "U+A624", "U+A625",
       "U+A626", "U+A627", "U+A628", "U+A629">>,
     <<"U+A8D0", "U+A8D1", "U+A8D2", "U+A8D3", "U+A8D4", "U+A8D5",
       "U+A8D6", "U+A8D7", "U+A8D8", "U+A8D9">>,
     <<"U+A900", "U+A901", "U+A902", "U+A903", "U+A904", "U+A905",
       "U+A906", "U+A907", "U+A908", "U+A909">>,
     <<"U+A9D0", "U+A9D1", "U+A9D2", "U+A9D3", "U+A9D4", "U+A9D5",
       "U+A9D6", "U+A9D7", "U+A9D8", "U+A9D9">>,
     <<"U+A9F0", "U+A9F1", "U+A9F2", "U+A9F3", "U+A9F4", "U+A9F5",
       "U+A9F6", "U+A9F7", "U+A9F8", "U+A9F9">>,
     <<"U+AA50", "U+AA51", "U+AA52", "U+AA53", "U+AA54", "U+AA55",
       "U+AA56", "U+AA57", "U+AA58", "U+AA59">>,
     <<"U+ABF0", "U+ABF1", "U+ABF2", "U+ABF3", "U+ABF4", "U+ABF5",
       "U+ABF6", "U+ABF7", "U+ABF8", "U+ABF9">>,
     <<"U+FF10", "U+FF11", "U+FF12", "U+FF13", "U+FF14", "U+FF15",
       "U+FF16", "U+FF17", "U+FF18", "U+FF19">>,
     <<"U+104A0", "U+104A1", "U+104A2", "U+104A3", "U+104A4", "U+104A5",
       "U+104A6", "U+104A7", "U+104A8", "U+104A9">>,
     <<"U+10D30", "U+10D31", "U+10D32", "U+10D33", "U+10D34", "U+10D35",
       "U+10D36", "U+10D37", "U+10D38", "U+10D39">>,
     <<"U+11066", "U+11067", "U+11068", "U+11069", "U+1106A", "U+1106B",
       "U+1106C", "U+1106D", "U+1106E", "U+1106F">>,
     <<"U+110F0", "U+110F1", "U+110F2", "U+110F3", "U+110F4", "U+110F5",
       "U+110F6", "U+110F7", "U+110F8", "U+110F9">>,
     <<"U+11136", "U+11137", "U+11138", "U+11139", "U+1113A", "U+1113B",
       "U+1113C", "U+1113D", "U+1113E", "U+1113F">>,
     <<"U+111D0", "U+111D1", "U+111D2", "U+111D3", "U+111D4", "U+111D5",
       "U+111D6", "U+111D7", "U+111D8", "U+111D9">>,
     <<"U+112F0", "U+112F1", "U+112F2", "U+112F3", "U+112F4", "U+112F5",
       "U+112F6", "U+112F7", "U+112F8", "U+112F9">>,
     <<"U+11450", "U+11451", "U+11452", "U+11453", "U+11454", "U+11455",
       "U+11456", "U+11457", "U+11458", "U+11459">>,
     <<"U+114D0", "U+114D1", "U+114D2", "U+114D3", "U+114D4", "U+114D5",
       "U+114D6", "U+114D7", "U+114D8", "U+114D9">>,
     <<"U+11650", "U+11651", "U+11652", "U+11653", "U+11654", "U+11655",
       "U+11656", "U+11657", "U+11658", "U+11659">>,
     <<"U+116C0", "U+116C1", "U+116C2", "U+116C3", "U+116C4", "U+116C5",
       "U+116C6", "U+116C7", "U+116C8", "U+116C9">>,
     <<"U+11730", "U+11731", "U+11732", "U+11733", "U+11734", "U+11735",
       "U+11736", "U+11737", "U+11738", "U+11739">>,
     <<"U+118E0", "U+118E1", "U+118E2", "U+118E3", "U+118E4", "U+118E5",
       "U+118E6", "U+118E7", "U+118E8", "U+118E9">>,
     <<"U+11950", "U+11951", "U+11952", "U+11953", "U+11954", "U+11955",
       "U+11956", "U+11957", "U+11958", "U+11959">>,
     <<"U+11C50", "U+11C51", "U+11C52", "U+11C53", "U+11C54", "U+11C55",
       "U+11C56", "U+11C57", "U+11C58", "U+11C59">>,
     <<"U+11D50", "U+11D51", "U+11D52", "U+11D53", "U+11D54", "U+11D55",
       "U+11D56", "U+11D57", "U+11D58", "U+11D59">>,
     <<"U+11DA0", "U+11DA1", "U+11DA2", "U+11DA3", "U+11DA4", "U+11DA5",
       "U+11DA6", "U+11DA7", "U+11DA8", "U+11DA9">>,
     <<"U+16A60", "U+16A61", "U+16A62", "U+16A63", "U+16A64", "U+16A65",
       "U+16A66", "U+16A67", "U+16A68", "U+16A69">>,
     <<"U+16AC0", "U+16AC1", "U+16AC2", "U+16AC3", "U+16AC4", "U+16AC5",
       "U+16AC6", "U+16AC7", "U+16AC8", "U+16AC9">>,
     <<"U+16B50", "U+16B51", "U+16B52", "U+16B53", "U+16B54", "U+16B55",
       "U+16B56", "U+16B57", "U+16B58", "U+16B59">>,
     <<"U+1D7CE", "U+1D7CF", "U+1D7D0", "U+1D7D1", "U+1D7D2", "U+1D7D3",
       "U+1D7D4", "U+1D7D5", "U+1D7D6", "U+1D7D7">>,
     <<"U+1D7D8", "U+1D7D9", "U+1D7DA", "U+1D7DB", "U+1D7DC", "U+1D7DD",
       "U+1D7DE", "U+1D7DF", "U+1D7E0", "U+1D7E1">>,
     <<"U+1D7E2", "U+1D7E3", "U+1D7E4", "U+1D7E5", "U+1D7E6", "U+1D7E7",
       "U+1D7E8", "U+1D7E9", "U+1D7EA", "U+1D7EB">>,
     <<"U+1D7EC", "U+1D7ED", "U+1D7EE", "U+1D7EF", "U+1D7F0", "U+1D7F1",
       "U+1D7F2", "U+1D7F3", "U+1D7F4", "U+1D7F5">>,
     <<"U+1D7F6", "U+1D7F7", "U+1D7F8", "U+1D7F9", "U+1D7FA", "U+1D7FB",
       "U+1D7FC", "U+1D7FD", "U+1D7FE", "U+1D7FF">>,
     <<"U+1E140", "U+1E141", "U+1E142", "U+1E143", "U+1E144", "U+1E145",
       "U+1E146", "U+1E147", "U+1E148", "U+1E149">>,
     <<"U+1E2F0", "U+1E2F1", "U+1E2F2", "U+1E2F3", "U+1E2F4", "U+1E2F5",
       "U+1E2F6", "U+1E2F7", "U+1E2F8", "U+1E2F9">>,
     <<"U+1E950", "U+1E951", "U+1E952", "U+1E953", "U+1E954", "U+1E955",
       "U+1E956", "U+1E957", "U+1E958", "U+1E959">>,
     <<"U+1FBF0", "U+1FBF1", "U+1FBF2", "U+1FBF3", "U+1FBF4", "U+1FBF5",
       "U+1FBF6", "U+1FBF7", "U+1FBF8", "U+1FBF9">>}
DigitSet == UNION {{row[i] : i \in 1..Len(row)} : row \in DigitRows}
DigitValue(c) == CHOOSE d \in 0..9 : \E row \in DigitRows : row[d + 1] = c

\* the characters int() ignores around a literal: those str.isspace() holds
\* for but the four separators U+001C..U+001F, which int() refuses
WhitespaceChars ==
    {" ", "\t", "\n", "\r", "\f", "U+000B", "U+0085", "U+00A0", "U+1680",
     "U+2000", "U+2001", "U+2002", "U+2003", "U+2004", "U+2005", "U+2006",
     "U+2007", "U+2008", "U+2009", "U+200A", "U+2028", "U+2029", "U+202F",
     "U+205F", "U+3000"}

\* str(n) of an int, as an f-string formats it
RECURSIVE IntStr(_)
IntStr(n) ==
    IF n < 0 THEN <<"-">> \o IntStr(-n)
    ELSE IF n < 10 THEN <<DigitChars[n + 1]>>
    ELSE IntStr(n \div 10) \o <<DigitChars[(n % 10) + 1]>>

\* the literal without the whitespace around it
RECURSIVE Strip(_)
Strip(s) ==
    IF s = <<>> THEN s
    ELSE IF Head(s) \in WhitespaceChars THEN Strip(Tail(s))
    ELSE IF s[Len(s)] \in WhitespaceChars
        THEN Strip(SubSeq(s, 1, Len(s) - 1))
    ELSE s

\* the literal int() is given without the whitespace around it and the one
\* sign before it
Unsigned(s) ==
    LET t == Strip(s)
    IN  IF t # <<>> /\ Head(t) \in {"+", "-"} THEN Tail(t) ELSE t

\* the digits of a literal: one underscore may stand between two digits
DigitsOf(u) == SelectSeq(u, LAMBDA c : c # "_")

RECURSIVE DigitsValue(_)
DigitsValue(u) ==
    IF u = <<>> THEN 0
    ELSE 10 * DigitsValue(SubSeq(u, 1, Len(u) - 1)) + DigitValue(u[Len(u)])

\* int(s) accepts s / the value of int(s)
IsIntStr(s) ==
    LET u == Unsigned(s)
    IN  /\ u # <<>>
        /\ \A i \in 1..Len(u) :
              \/ u[i] \in DigitSet
              \/ /\ u[i] = "_"
                 /\ 1 < i /\ i < Len(u)
                 /\ u[i - 1] \in DigitSet /\ u[i + 1] \in DigitSet
ParseInt(s) ==
    IF Head(Strip(s)) = "-" THEN 0 - DigitsValue(DigitsOf(Unsigned(s)))
                            ELSE DigitsValue(DigitsOf(Unsigned(s)))

\* s.split(sep) for a separator of one character
RECURSIVE Split(_, _)
Split(s, sep) ==
    IF \A i \in 1..Len(s) : s[i] # sep THEN <<s>>
    ELSE LET k == CHOOSE i \in 1..Len(s) :
                      s[i] = sep /\ \A j \in 1..(i - 1) : s[j] # sep
         IN  <<SubSeq(s, 1, k - 1)>> \o Split(SubSeq(s, k + 1, Len(s)), sep)

StrNft == <<"n", "f", "t">>
StrMint == <<"m", "i", "n", "t">>

\* f"nft_mint_{payment.id}_{payment.result_id}"
InvoicePayload(payment_id, result_id) ==
    StrNft \o <<"_">> \o StrMint \o <<"_">> \o IntStr(payment_id)
        \o <<"_">> \o IntStr(result_id)

\* invoice payloads a provider callback may carry: nft_mint_1, nft_burn_1_1,
\* nft_mint_x_1 and nft_mint_<TAB>1_1 beside the well-formed ones
Payloads ==
    {InvoicePayload(i, r) : i \in AskedPaymentIds, r \in AskedResultIds}
    \cup {StrNft \o <<"_">> \o StrMint \o <<"_", "1">>,
          StrNft \o <<"_", "b", "u", "r", "n", "_", "1", "_", "1">>,
          StrNft \o <<"_">> \o StrMint \o <<"_", "x", "_", "1">>,
          StrNft \o <<"_">> \o StrMint \o <<"_", "\t", "1", "_", "1">>}

\* message.successful_payment carries the two charge ids beside the payload;
\* they are the provider's and do not depend on the payload
Charges == {"tg_1", "tg_2"} \X {"prov_1", "prov_2"}
\* the charge of the callbacks where one charge is followed
OneCharge == {<<"tg_1", "prov_1">>}

\* an attribute that was set to the value it was loaded with is not part of
\* the UPDATE
KEEP == "KEEP"
Changed(loaded, value) == IF value = loaded THEN KEEP ELSE value

\* parts = invoice_payload.split("_"); shape test of both parsers
PayloadShapeOk(parts) ==
    Len(parts) = 4 /\ parts[1] = StrNft /\ parts[2] = StrMint

\* --------------------------------------------------------------- state
VARIABLES
    payments,       \* committed rows of table payments, by id
    results,        \* committed rows of table quiz_results, by id
    mintTxs,        \* committed rows of table mint_transactions, by id
    metadata,       \* committed rows of table nft_metadata
    nextPaymentId,  \* next id of payments
    nextTxId,       \* next id of mint_transactions
    chainMints,     \* NFTs issued on chain, per result
    proc,           \* the request handlers in flight and their sessions
    last,           \* the call that ended in the last step, and its outcome
    returned,       \* payment ids create_mint_payment returned, per result
    redis,          \* the quiz sessions in Redis, by user id
    saved,          \* calls of save_answer that returned since start_quiz, per user
    quizzes,        \* ids of the committed rows of table quizzes
    nextResultId,   \* next id of quiz_results
    nextQuizId      \* next id of quizzes

vars == <<payments, results, mintTxs, metadata, nextPaymentId, nextTxId,
          chainMints, proc, last, returned, redis, saved, quizzes, nextResultId, nextQuizId>>

Empty == <<>>

IdleProc ==
    [op |-> "idle", pc |-> "idle", r |-> 0, pid |-> 0, user |-> 0,
     provider |-> NULL, tg |-> NULL, prov |-> NULL, paidAt |-> NoTime,
     txid |-> 0, pay |-> Empty, tx |-> Empty, res |-> Empty, meta |-> {},
     addr |-> NULL, startedPaid |-> FALSE, via |-> NULL,
     loaded |-> {}, minted |-> FALSE, payload |-> <<>>,
     session |-> Empty, quiz |-> 0, newFrom |-> 0]

\* no call ended in the last step
NoCall ==
    [op |-> "none", how |-> NULL, arg |-> 0, r |-> 0, ret |-> 0,
     err |-> NULL, obj |-> Empty, user |-> 0, provider |-> NULL,
     payload |-> <<>>, ok |-> FALSE, parsed |-> <<>>,
     quiz |-> <<>>, answer_ids |-> <<>>, result_type |-> NULL, score |-> 0,
     answers |-> <<>>, requests |-> 0, text |-> NULL, ipfs_hash |-> NULL]

\* the outcome of a call: how is "returned" or "raised", arg the id the
\* call was made with, ret the id of the row it returns, err the error or
\* message, obj the state of the object the call left modified in its
\* session without flushing it, user and provider the further arguments of
\* a call of create_mint_payment, payload and ok the argument and the first
\* component of the result of a call of handle_pre_checkout, parsed what the
\* two parsers make of a payload, quiz and answer_ids the arguments and
\* result_type and score the result of a call of calculate_result, answers
\* what the storage provider answers to the requests of a call of the
\* storage service, requests how many requests the call made, text the
\* provider's text in the error the call raised and ipfs_hash the hash the
\* call returned
Outcome(op, how, arg, r, ret, err) ==
    [op |-> op, how |-> how, arg |-> arg, r |-> r, ret |-> ret,
     err |-> err, obj |-> Empty, user |-> 0, provider |-> NULL,
     payload |-> <<>>, ok |-> FALSE, parsed |-> <<>>,
     quiz |-> <<>>, answer_ids |-> <<>>, result_type |-> NULL, score |-> 0,
     answers |-> <<>>, requests |-> 0, text |-> NULL, ipfs_hash |-> NULL]

\* a new request is taken by the free worker with the lowest number
Free(p) ==
    /\ proc[p].pc = "idle"
    /\ \A q \in Procs : q < p => proc[q].pc # "idle"

\* handler p ends: its session is closed, what it did not commit is gone
Ends(p, outcome) ==
    /\ proc' = [proc EXCEPT ![p] = IdleProc]
    /\ last' = outcome

\* handler p goes on with the next step
Continues(p, next) ==
    /\ proc' = [proc EXCEPT ![p] = next]
    /\ last' = NoCall

\* QuizResult(user_id=..., quiz_id=...): nft_minted defaults to False
NewQuizResult(user_id, quiz_id) ==
    [user_id |-> user_id, quiz_id |-> quiz_id, nft_minted |-> FALSE,
     nft_address |-> NULL]

\* the database with these quizzes and no result, no payment and no
\* transaction: Database(QuizIds) is the database after the migrations and
\* db/seed.py
Database(seeded) ==
    /\ payments = Empty
    /\ results = Empty
    /\ quizzes = seeded
    /\ nextQuizId = Cardinality(seeded) + 1
    /\ nextResultId = 1
    /\ mintTxs = Empty
    /\ metadata = {}
    /\ nextPaymentId = 1
    /\ nextTxId = 1
    /\ chainMints = [r \in Results |-> 0]
    /\ proc = [p \in Procs |-> IdleProc]
    /\ last = NoCall
    /\ returned = [r \in Results |-> {}]
    /\ redis = Empty
    /\ saved = [u \in Users |-> 0]

\* the database after the migrations
Init == Database({})

\* ------------------------------------------------- the store's constraints
ActiveStatuses == {"pending", "paid"}

\* rows a SELECT of session p sees: committed rows under its own writes
PayView(p) == proc[p].pay @@ payments
TxView(p) == proc[p].tx @@ mintTxs
ResView(p) == proc[p].res @@ results

\* a query for pending payments only
ActivePaymentIdsPendingOnly(p, r) ==
    {i \in DOMAIN PayView(p) :
        PayView(p)[i].result_id = r /\ PayView(p)[i].status = "pending"}

\* select(Payment).where(result_id == r, status.in_(["pending","paid"]))
ActivePaymentIds(p, r) ==
    {i \in DOMAIN PayView(p) :
        PayView(p)[i].result_id = r /\ PayView(p)[i].status \in ActiveStatuses}

\* session.scalar(stmt): the first row of the result
FirstOf(S) == CHOOSE i \in S : \A j \in S : i <= j

\* UPDATE of row i waits while another session holds an uncommitted version
PaymentRowLocked(p, i) ==
    \E q \in Procs \ {p} : i \in DOMAIN proc[q].pay

\* a flush that does not wait for the other session's uncommitted entry
ActiveIndexNoWait(p, r, i) == FALSE

\* ix_payments_result_id_unique_active: an entry for result r made by
\* session p (row i) waits for sessions that hold an uncommitted version of
\* another row which is or was active for r
ActiveIndexWaits(p, r, i) ==
    \E q \in Procs \ {p} : \E j \in DOMAIN proc[q].pay \ {i} :
        /\ proc[q].pay[j].result_id = r
        /\ \/ proc[q].pay[j].status \in ActiveStatuses
           \/ j \in DOMAIN payments /\ payments[j].status \in ActiveStatuses

\* a table without the partial unique index
ActiveIndexAbsent(p, r, i) == FALSE

\* ... and is refused when another row is active for r
ActiveIndexViolated(p, r, i) ==
    \E j \in DOMAIN PayView(p) \ {i} :
        /\ PayView(p)[j].result_id = r
        /\ PayView(p)[j].status \in ActiveStatuses

\* session.commit(): the session's writes become the committed rows
CommitPayments(p) == proc[p].pay @@ payments
CommitResults(p) == proc[p].res @@ results
CommitMetadata(p) == metadata \cup proc[p].meta

\* amount and currency by provider


\* what the steps of the payment service leave alone
OnlyProc ==
    UNCHANGED <<payments, results, mintTxs, metadata, nextPaymentId,
                nextTxId, chainMints, returned, redis, saved, quizzes, nextResultId, nextQuizId>>

\* -------------------------------------------- PaymentService.create_mint_payment
\* a validation that does not look at the minted flag
CreateErrorNoMintedCheck(p, user_id, result_id, provider) ==
    IF provider \notin {"telegram_stars", "ton_connect"}
        THEN "Invalid payment provider"
    ELSE IF provider = "telegram_stars" /\ ~STARS_ENABLED
        THEN "Telegram Stars payments are disabled"
    ELSE IF provider = "ton_connect" /\ ~TON_PAYMENT_ENABLED
        THEN "TON payments are disabled"
    ELSE IF result_id \notin DOMAIN ResView(p)
        THEN "Quiz result not found"
    ELSE IF ResView(p)[result_id].user_id # user_id
        THEN "User does not own this quiz result"
    ELSE NULL

\* validation of the arguments; NULL when they pass
CreateError(p, user_id, result_id, provider) ==
    IF provider \notin {"telegram_stars", "ton_connect"}
        THEN "Invalid payment provider"
    ELSE IF provider = "telegram_stars" /\ ~STARS_ENABLED
        THEN "Telegram Stars payments are disabled"
    ELSE IF provider = "ton_connect" /\ ~TON_PAYMENT_ENABLED
        THEN "TON payments are disabled"
    ELSE IF result_id \notin DOMAIN ResView(p)
        THEN "Quiz result not found"
    ELSE IF ResView(p)[result_id].user_id # user_id
        THEN "User does not own this quiz result"
    ELSE IF ResView(p)[result_id].nft_minted
        THEN "NFT already minted for this result"
    ELSE NULL

\* the outcome of a call of create_mint_payment with its arguments
CreateOutcome(how, user_id, result_id, provider, ret, err) ==
    [Outcome("create", how, result_id, result_id, ret, err) EXCEPT
        !.user = user_id, !.provider = provider]

\* create_mint_payment returns payment i for result r
Returns(r, i) ==
    /\ returned' = [returned EXCEPT ![r] = @ \cup {i}]
    /\ UNCHANGED <<redis, saved, quizzes, nextResultId, nextQuizId>>

\* the validation of the provider, session.get(QuizResult) and the checks
\* of the result.  newFrom is a note about the call that no step reads:
\* when the result has payments and all of them are failed or refunded as
\* the call begins, the id the next inserted payment gets; 0 otherwise
CreateMintPayment(p, user_id, result_id, provider) ==
    /\ Free(p)
    /\ LET e == CreateError(p, user_id, result_id, provider)
           old == {i \in DOMAIN payments :
                      payments[i].result_id = result_id}
           inactive == /\ old # {}
                       /\ \A i \in old :
                             payments[i].status \notin ActiveStatuses
       IN  IF e # NULL
               THEN Ends(p, CreateOutcome("raised", user_id, result_id,
                                          provider, 0, e))
               ELSE Continues(p, [IdleProc EXCEPT !.op = "create",
                        !.pc = "create_query", !.r = result_id,
                        !.user = user_id, !.provider = provider,
                        !.newFrom = IF inactive THEN nextPaymentId ELSE 0])
    /\ OnlyProc

\* session.scalar(stmt): the query for an existing active payment
CreateQuery(p) ==
    /\ proc[p].pc = "create_query"
    /\ LET existing == ActivePaymentIds(p, proc[p].r)
       IN  IF existing # {}
               THEN /\ Ends(p, CreateOutcome("returned", proc[p].user,
                                 proc[p].r, proc[p].provider,
                                 FirstOf(existing), "existing"))
                    /\ Returns(proc[p].r, FirstOf(existing))
               ELSE /\ Continues(p, [proc[p] EXCEPT !.pc = "create_flush"])
                    /\ UNCHANGED <<returned, redis, saved, quizzes,
                                   nextResultId, nextQuizId>>
    /\ UNCHANGED <<payments, results, mintTxs, metadata, nextPaymentId,
                   nextTxId, chainMints>>

NewPayment(user_id, result_id, provider) ==
    [user_id |-> user_id, result_id |-> result_id,
     amount |-> IF provider = "telegram_stars" THEN NFT_MINT_PRICE_STARS
                ELSE NFT_MINT_PRICE_NANOTON,
     currency |-> IF provider = "telegram_stars" THEN "STARS" ELSE "TON",
     status |-> "pending", provider |-> provider,
     provider_payment_id |-> NULL, telegram_payment_charge_id |-> NULL,
     paid_at |-> NoTime]

\* payments.result_id references quiz_results.id: an insert for a result
\* whose row is gone is refused
ResultKeyViolated(r) == r \notin DOMAIN results

\* session.add(payment); session.flush(); on IntegrityError session.rollback()
CreateFlush(p) ==
    /\ proc[p].pc = "create_flush"
    /\ ~ActiveIndexWaits(p, proc[p].r, nextPaymentId)
    /\ IF \/ ActiveIndexViolated(p, proc[p].r, nextPaymentId)
          \/ ResultKeyViolated(proc[p].r)
         THEN /\ Continues(p, [proc[p] EXCEPT !.pc = "create_requery",
                                              !.pay = Empty])
              /\ UNCHANGED nextPaymentId
         ELSE /\ nextPaymentId <= MaxPayments
              /\ Continues(p, [proc[p] EXCEPT !.pc = "create_commit",
                      !.pid = nextPaymentId,
                      !.pay = (nextPaymentId :>
                          NewPayment(proc[p].user, proc[p].r,
                                     proc[p].provider))])
              /\ nextPaymentId' = nextPaymentId + 1
    /\ UNCHANGED <<payments, results, mintTxs, metadata, nextTxId,
                   chainMints, returned, redis, saved, quizzes, nextResultId, nextQuizId>>

\* the query after the rollback: the winner's row, or the error again
CreateRequery(p) ==
    /\ proc[p].pc = "create_requery"
    /\ LET existing == ActivePaymentIds(p, proc[p].r)
       IN  IF existing # {}
               THEN /\ Ends(p, CreateOutcome("returned", proc[p].user,
                                 proc[p].r, proc[p].provider,
                                 FirstOf(existing), "race"))
                    /\ Returns(proc[p].r, FirstOf(existing))
               ELSE /\ Ends(p, CreateOutcome("raised", proc[p].user,
                                 proc[p].r, proc[p].provider, 0,
                                 "IntegrityError"))
                    /\ UNCHANGED <<returned, redis, saved, quizzes, nextResultId, nextQuizId>>
    /\ UNCHANGED <<payments, results, mintTxs, metadata, nextPaymentId,
                   nextTxId, chainMints>>

\* the caller's db.commit() after create_mint_payment returned its new row
CreateCommit(p) ==
    /\ proc[p].pc = "create_commit"
    /\ payments' = CommitPayments(p)
    /\ Ends(p, CreateOutcome("returned", proc[p].user, proc[p].r,
                             proc[p].provider, proc[p].pid, "created"))
    /\ Returns(proc[p].r, proc[p].pid)
    /\ UNCHANGED <<results, mintTxs, metadata, nextPaymentId, nextTxId,
                   chainMints>>

\* ---------------------------------- PaymentService.handle_successful_payment
\* datetime.now(UTC): a time later than every time the system holds
Now ==
    LET TimesHeld ==
            {payments[i].paid_at : i \in DOMAIN payments}
            \cup {proc[q].paidAt : q \in Procs}
            \cup UNION {{proc[q].pay[i].paid_at : i \in DOMAIN proc[q].pay} :
                           q \in Procs}
    IN  (CHOOSE t \in TimesHeld : \A u \in TimesHeld : u <= t) + 1

\* the row an UPDATE of a payment writes: the changed columns over the
\* row's current version; a charge id only when it differs from the loaded
\* one, paid_at only when the loaded row had none
PaidVersion(row, tg, prov, paidAt) ==
    [row EXCEPT !.status = "paid",
                !.telegram_payment_charge_id = IF tg # KEEP THEN tg ELSE @,
                !.provider_payment_id = IF prov # KEEP THEN prov ELSE @,
                !.paid_at = IF paidAt # NoTime THEN paidAt ELSE @]

\* a handle_successful_payment without the already-paid return, which
\* stamps paid_at on every call
HandleSuccessfulPaymentNaive(p, caller, invoice_payload, tg, prov) ==
    /\ Free(p)
    /\ LET parts == Split(invoice_payload, "_")
           shapeOk == PayloadShapeOk(parts)
           idOk == shapeOk /\ IsIntStr(parts[3])
           payment_id == ParseInt(parts[3])
           found == idOk /\ payment_id \in DOMAIN PayView(p)
           payment == PayView(p)[payment_id]
           start == [IdleProc EXCEPT !.op = caller,
                        !.startedPaid = found /\ payment.status = "paid"]
       IN  /\ found => Now <= MaxClock
           /\ IF ~shapeOk
                  THEN Ends(p, Outcome(caller, "raised", 0, 0, 0,
                                       "Invalid invoice payload"))
              ELSE IF ~idOk
                  THEN Ends(p, Outcome(caller, "raised", 0, 0, 0,
                                       "invalid literal for int()"))
              ELSE IF ~found
                  THEN Ends(p, Outcome(caller, "raised", payment_id, 0,
                                       0, "Payment not found"))
              ELSE Continues(p, [start EXCEPT !.pc = "hsp_flush",
                       !.pid = payment_id, !.r = payment.result_id,
                       !.tg = tg, !.prov = prov, !.paidAt = Now])
    /\ UNCHANGED <<payments, results, mintTxs, metadata, nextPaymentId,
                   nextTxId, chainMints, returned, redis, saved, quizzes, nextResultId, nextQuizId>>

\* parse the payload, load the payment, set the attributes.  caller is
\* "bot_paid" for the bot's successful-payment handler, which goes on to
\* mint, and "hsp" for a caller that commits and is done
HandleSuccessfulPayment(p, caller, invoice_payload, tg, prov) ==
    /\ Free(p)
    /\ LET parts == Split(invoice_payload, "_")
           shapeOk == PayloadShapeOk(parts)
           idOk == shapeOk /\ IsIntStr(parts[3])
           payment_id == ParseInt(parts[3])
           found == idOk /\ payment_id \in DOMAIN PayView(p)
           payment == PayView(p)[payment_id]
           setsPaidAt == found /\ payment.status # "paid"
                               /\ payment.paid_at = NoTime
           start == [IdleProc EXCEPT !.op = caller,
                        !.startedPaid = found /\ payment.status = "paid"]
       IN  /\ setsPaidAt => Now <= MaxClock
           /\ IF ~shapeOk
                  THEN Ends(p, Outcome(caller, "raised", 0, 0, 0,
                                       "Invalid invoice payload"))
              ELSE IF ~idOk
                  THEN Ends(p, Outcome(caller, "raised", 0, 0, 0,
                                       "invalid literal for int()"))
              ELSE IF ~found
                  THEN Ends(p, Outcome(caller, "raised", payment_id, 0,
                                       0, "Payment not found"))
              ELSE IF payment.status = "paid"
                  THEN Continues(p, [start EXCEPT !.pc = "hsp_commit",
                           !.pid = payment_id, !.r = payment.result_id])
              ELSE Continues(p, [start EXCEPT !.pc = "hsp_flush",
                       !.pid = payment_id, !.r = payment.result_id,
                       !.tg = Changed(payment.telegram_payment_charge_id,
                                      tg),
                       !.prov = Changed(payment.provider_payment_id, prov),
                       !.paidAt = IF setsPaidAt THEN Now ELSE NoTime])
    /\ UNCHANGED <<payments, results, mintTxs, metadata, nextPaymentId,
                   nextTxId, chainMints, returned, redis, saved, quizzes, nextResultId, nextQuizId>>

\* an UPDATE of a row that was deleted since the session loaded it matches
\* no row: the flush raises StaleDataError
RowGone(table, i) == i \notin DOMAIN table

\* a flush that marks every payment of the result paid
HspFlushAllOfResult(p) ==
    /\ proc[p].pc = "hsp_flush"
    /\ ~PaymentRowLocked(p, proc[p].pid)
    /\ ~ActiveIndexWaits(p, proc[p].r, proc[p].pid)
    /\ ~RowGone(payments, proc[p].pid)
    /\ Continues(p, [proc[p] EXCEPT !.pc = "hsp_commit",
           !.pay = [j \in {k \in DOMAIN payments :
                              payments[k].result_id = proc[p].r} |->
                      PaidVersion(payments[j], proc[p].tg, proc[p].prov,
                                  proc[p].paidAt)]])
    /\ OnlyProc

\* session.flush() of handle_successful_payment
HspFlush(p) ==
    /\ proc[p].pc = "hsp_flush"
    /\ ~PaymentRowLocked(p, proc[p].pid)
    /\ ~ActiveIndexWaits(p, proc[p].r, proc[p].pid)
    /\ IF RowGone(payments, proc[p].pid)
         THEN Ends(p, Outcome(proc[p].op, "raised", proc[p].pid, proc[p].r,
                              0, "StaleDataError"))
       ELSE IF ActiveIndexViolated(p, proc[p].r, proc[p].pid)
         THEN Ends(p, Outcome(proc[p].op, "raised", proc[p].pid, proc[p].r,
                              0, "IntegrityError"))
         ELSE Continues(p, [proc[p] EXCEPT !.pc = "hsp_commit",
                  !.pay = (proc[p].pid :>
                      PaidVersion(payments[proc[p].pid], proc[p].tg,
                                  proc[p].prov, proc[p].paidAt))])
    /\ OnlyProc

\* the caller's commit after handle_successful_payment returned
HspCommit(p) ==
    /\ proc[p].pc = "hsp_commit"
    /\ proc[p].op = "hsp"
    /\ payments' = CommitPayments(p)
    /\ Ends(p, Outcome("hsp", "returned", proc[p].pid, proc[p].r,
                       proc[p].pid,
                       IF proc[p].pay = Empty THEN "already marked as paid"
                                              ELSE NULL))
    /\ UNCHANGED <<results, mintTxs, metadata, nextPaymentId, nextTxId,
                   chainMints, returned, redis, saved, quizzes, nextResultId, nextQuizId>>

\* ---------------------------------------- PaymentService.mark_payment_failed

MarkPaymentFailed(p, payment_id) ==
    /\ Free(p)
    /\ IF payment_id \notin DOMAIN PayView(p)
         THEN Ends(p, Outcome("mark_failed", "returned", payment_id, 0, 0,
                              "Payment not found"))
         ELSE Continues(p, [IdleProc EXCEPT !.op = "mark_failed",
                  !.pc = IF PayView(p)[payment_id].status = "failed"
                            THEN "mpf_commit" ELSE "mpf_flush",
                  !.pid = payment_id,
                  !.r = PayView(p)[payment_id].result_id])
    /\ OnlyProc

\* session.flush() of mark_payment_failed
MpfFlush(p) ==
    /\ proc[p].pc = "mpf_flush"
    /\ ~PaymentRowLocked(p, proc[p].pid)
    /\ IF RowGone(payments, proc[p].pid)
         THEN Ends(p, Outcome("mark_failed", "raised", proc[p].pid,
                              proc[p].r, 0, "StaleDataError"))
         ELSE Continues(p, [proc[p] EXCEPT !.pc = "mpf_commit",
                  !.pay = (proc[p].pid :>
                              [payments[proc[p].pid] EXCEPT
                                  !.status = "failed"])])
    /\ OnlyProc

\* the caller's commit after mark_payment_failed
MpfCommit(p) ==
    /\ proc[p].pc = "mpf_commit"
    /\ payments' = CommitPayments(p)
    /\ Ends(p, Outcome("mark_failed", "returned", proc[p].pid, proc[p].r,
                       0, NULL))
    /\ UNCHANGED <<results, mintTxs, metadata, nextPaymentId, nextTxId,
                   chainMints, returned, redis, saved, quizzes, nextResultId, nextQuizId>>

\* --------------------------------------------- PaymentService.refund_payment

\* refund_payment without its check of the status
RefundPaymentAnyStatus(p, payment_id) ==
    /\ Free(p)
    /\ IF payment_id \notin DOMAIN PayView(p)
         THEN Ends(p, Outcome("refund", "raised", payment_id, 0, 0,
                              "Payment not found"))
       ELSE Continues(p, [IdleProc EXCEPT !.op = "refund",
                !.pc = "refund_flush", !.pid = payment_id,
                !.r = PayView(p)[payment_id].result_id])
    /\ OnlyProc

RefundPayment(p, payment_id) ==
    /\ Free(p)
    /\ IF payment_id \notin DOMAIN PayView(p)
         THEN Ends(p, Outcome("refund", "raised", payment_id, 0, 0,
                              "Payment not found"))
       ELSE IF PayView(p)[payment_id].status # "paid"
         THEN Ends(p, Outcome("refund", "raised", payment_id,
                              PayView(p)[payment_id].result_id, 0,
                              "Cannot refund payment"))
       ELSE Continues(p, [IdleProc EXCEPT !.op = "refund",
                !.pc = "refund_flush", !.pid = payment_id,
                !.r = PayView(p)[payment_id].result_id])
    /\ OnlyProc

\* session.flush() of refund_payment
RefundFlush(p) ==
    /\ proc[p].pc = "refund_flush"
    /\ ~PaymentRowLocked(p, proc[p].pid)
    /\ IF RowGone(payments, proc[p].pid)
         THEN Ends(p, Outcome("refund", "raised", proc[p].pid, proc[p].r,
                              0, "StaleDataError"))
         ELSE Continues(p, [proc[p] EXCEPT !.pc = "refund_commit",
                  !.pay = (proc[p].pid :>
                              [payments[proc[p].pid] EXCEPT
                                  !.status = "refunded"])])
    /\ OnlyProc

\* the caller's commit after refund_payment
RefundCommit(p) ==
    /\ proc[p].pc = "refund_commit"
    /\ payments' = CommitPayments(p)
    /\ Ends(p, Outcome("refund", "returned", proc[p].pid, proc[p].r,
                       proc[p].pid, NULL))
    /\ UNCHANGED <<results, mintTxs, metadata, nextPaymentId, nextTxId,
                   chainMints, returned, redis, saved, quizzes, nextResultId, nextQuizId>>

\* ------------------------------------------ PaymentService.handle_pre_checkout
\* the tuple (is_valid, error_message) the call returns for a payload
PreCheckoutOutcome(invoice_payload, payment_id, result_id, ok, reason) ==
    [Outcome("pre_checkout", "returned", payment_id, result_id, 0, reason)
        EXCEPT !.payload = invoice_payload, !.ok = ok]

\* a handle_pre_checkout that does not compare the result ids
HandlePreCheckoutNoMatch(p, invoice_payload) ==
    /\ Free(p)
    /\ LET parts == Split(invoice_payload, "_")
           shapeOk == PayloadShapeOk(parts)
           idsOk == shapeOk /\ IsIntStr(parts[3]) /\ IsIntStr(parts[4])
           payment_id == ParseInt(parts[3])
           result_id == ParseInt(parts[4])
           Refused(i, r, reason) ==
               Ends(p, PreCheckoutOutcome(invoice_payload, i, r, FALSE,
                                          reason))
       IN  IF ~shapeOk
               THEN Refused(0, 0, "Invalid invoice payload")
           ELSE IF ~idsOk
               THEN Refused(0, 0, "Validation error")
           ELSE IF payment_id \notin DOMAIN PayView(p)
               THEN Refused(payment_id, result_id, "Payment not found")
           ELSE IF PayView(p)[payment_id].status # "pending"
               THEN Refused(payment_id, result_id,
                            "Payment status is not pending")
           ELSE Continues(p, [IdleProc EXCEPT !.op = "pre_checkout",
                    !.pc = "pre_checkout_result", !.pid = payment_id,
                    !.r = result_id, !.payload = invoice_payload])
    /\ OnlyProc

\* parsing of the payload, session.get(Payment) and the checks of the
\* payment; a ValueError of int() is caught by the except clause
HandlePreCheckout(p, invoice_payload) ==
    /\ Free(p)
    /\ LET parts == Split(invoice_payload, "_")
           shapeOk == PayloadShapeOk(parts)
           idsOk == shapeOk /\ IsIntStr(parts[3]) /\ IsIntStr(parts[4])
           payment_id == ParseInt(parts[3])
           result_id == ParseInt(parts[4])
           Refused(i, r, reason) ==
               Ends(p, PreCheckoutOutcome(invoice_payload, i, r, FALSE,
                                          reason))
       IN  IF ~shapeOk
               THEN Refused(0, 0, "Invalid invoice payload")
           ELSE IF ~idsOk
               THEN Refused(0, 0, "Validation error")
           ELSE IF payment_id \notin DOMAIN PayView(p)
               THEN Refused(payment_id, result_id, "Payment not found")
           ELSE IF PayView(p)[payment_id].result_id # result_id
               THEN Refused(payment_id, result_id,
                            "Payment result mismatch")
           ELSE IF PayView(p)[payment_id].status # "pending"
               THEN Refused(payment_id, result_id,
                            "Payment status is not pending")
           ELSE Continues(p, [IdleProc EXCEPT !.op = "pre_checkout",
                    !.pc = "pre_checkout_result", !.pid = payment_id,
                    !.r = result_id, !.payload = invoice_payload])
    /\ OnlyProc

\* session.get(QuizResult) and the checks of the result
\* a pre-checkout that marks the payment failed when the result is minted
PreCheckoutResultMarksFailed(p) ==
    /\ proc[p].pc = "pre_checkout_result"
    /\ LET Answer(ok, reason) ==
               Ends(p, PreCheckoutOutcome(proc[p].payload, proc[p].pid,
                                          proc[p].r, ok, reason))
       IN  IF proc[p].r \notin DOMAIN ResView(p)
               THEN /\ Answer(FALSE, "Quiz result not found")
                    /\ UNCHANGED payments
           ELSE IF ResView(p)[proc[p].r].nft_minted
               THEN /\ Answer(FALSE, "NFT already minted for this result")
                    /\ payments' = [payments EXCEPT
                                       ![proc[p].pid].status = "failed"]
           ELSE /\ Answer(TRUE, NULL)
                /\ UNCHANGED payments
    /\ UNCHANGED <<results, mintTxs, metadata, nextPaymentId,
                   nextTxId, chainMints, returned, redis, saved, quizzes, nextResultId, nextQuizId>>

PreCheckoutResult(p) ==
    /\ proc[p].pc = "pre_checkout_result"
    /\ LET Answer(ok, reason) ==
               Ends(p, PreCheckoutOutcome(proc[p].payload, proc[p].pid,
                                          proc[p].r, ok, reason))
       IN  IF proc[p].r \notin DOMAIN ResView(p)
               THEN Answer(FALSE, "Quiz result not found")
           ELSE IF ResView(p)[proc[p].r].nft_minted
               THEN Answer(FALSE, "NFT already minted for this result")
           ELSE Answer(TRUE, NULL)
    /\ UNCHANGED <<payments, results, mintTxs, metadata, nextPaymentId,
                   nextTxId, chainMints, returned, redis, saved, quizzes, nextResultId, nextQuizId>>

\* ------------------------------------- bot handler handle_successful_payment
\* the errors the outer except clause of the handler answers with "Error
\* processing payment": of the refresh of a result whose row is gone, and of
\* a message the Bot API refuses

\* quiz_result = await db.get(QuizResult, payment.result_id): without the
\* result the handler answers and returns; the session is closed without a
\* commit, and what the service flushed is rolled back
BotLoadResult(p) ==
    /\ proc[p].pc = "hsp_commit"
    /\ proc[p].op = "bot_paid"
    /\ IF proc[p].r \notin DOMAIN ResView(p)
         THEN Ends(p, Outcome("bot_paid", "returned", proc[p].pid,
                              proc[p].r, 0, "Quiz result not found"))
         ELSE Continues(p, [proc[p] EXCEPT !.pc = "bot_refresh",
                  !.user = ResView(p)[proc[p].r].user_id])
    /\ OnlyProc

\* await db.refresh(quiz_result, ["quiz"]): the quiz of the result is
\* loaded, its collections are not
BotRefresh(p) ==
    /\ proc[p].pc = "bot_refresh"
    /\ IF RowGone(results, proc[p].r)
         THEN Ends(p, Outcome("bot_paid", "raised", proc[p].pid, proc[p].r,
                              0, "InvalidRequestError"))
         ELSE Continues(p, [proc[p] EXCEPT !.pc = "bot_commit"])
    /\ OnlyProc

\* await db.commit(): the payment is stored as the service left it
BotCommit(p) ==
    /\ proc[p].pc = "bot_commit"
    /\ payments' = CommitPayments(p)
    /\ Continues(p, [proc[p] EXCEPT !.pc = "bot_answer", !.pay = Empty])
    /\ UNCHANGED <<results, mintTxs, metadata, nextPaymentId, nextTxId,
                   chainMints, returned, redis, saved, quizzes,
                   nextResultId, nextQuizId>>

\* await message.answer("Payment Successful!"): sent, and mint_nft is
\* called with the session and the loaded result; or refused, and the
\* handler ends without a mint
BotAnswer(p, sent) ==
    /\ proc[p].pc = "bot_answer"
    /\ IF sent
         THEN Continues(p, [IdleProc EXCEPT !.op = "mint",
                  !.pc = "mint_insert", !.r = proc[p].r,
                  !.user = proc[p].user, !.via = "bot"])
         ELSE Ends(p, Outcome("bot_paid", "raised", proc[p].pid, proc[p].r,
                              0, "TelegramAPIError"))
    /\ OnlyProc

\* ---------------------------------------- API endpoint confirm_mint_payment
\* select(MintTransaction).where(result_id == r)
TxIdsOfResult(p, r) ==
    {j \in DOMAIN TxView(p) : TxView(p)[j].result_id = r}

\* an endpoint that does not look at the status of the payment
ConfirmMintPaymentAnyStatus(p, payment_id, current_user) ==
    /\ Free(p)
    /\ LET found == payment_id \in DOMAIN PayView(p)
           payment == PayView(p)[payment_id]
           Raised(e) == Ends(p, Outcome("api_confirm", "raised", payment_id,
                                        IF found THEN payment.result_id
                                                 ELSE 0, 0, e))
       IN  IF ~found
               THEN Raised("404 Payment not found")
           ELSE IF payment.user_id # current_user
               THEN Raised("403 Payment does not belong to current user")
           ELSE Continues(p, [IdleProc EXCEPT !.op = "api_confirm",
                    !.pc = "confirm_result", !.pid = payment_id,
                    !.r = payment.result_id])
    /\ OnlyProc

\* await db.get(Payment, request.payment_id) and the checks of the payment
ConfirmMintPayment(p, payment_id, current_user) ==
    /\ Free(p)
    /\ LET found == payment_id \in DOMAIN PayView(p)
           payment == PayView(p)[payment_id]
           Raised(e) == Ends(p, Outcome("api_confirm", "raised", payment_id,
                                        IF found THEN payment.result_id
                                                 ELSE 0, 0, e))
       IN  IF ~found
               THEN Raised("404 Payment not found")
           ELSE IF payment.user_id # current_user
               THEN Raised("403 Payment does not belong to current user")
           ELSE IF payment.status # "paid"
               THEN Raised("400 Payment status is not paid")
           ELSE Continues(p, [IdleProc EXCEPT !.op = "api_confirm",
                    !.pc = "confirm_result", !.pid = payment_id,
                    !.r = payment.result_id])
    /\ OnlyProc

\* quiz_result = await db.get(QuizResult, payment.result_id)
ConfirmResult(p) ==
    /\ proc[p].pc = "confirm_result"
    /\ IF proc[p].r \notin DOMAIN ResView(p)
         THEN Ends(p, Outcome("api_confirm", "raised", proc[p].pid,
                              proc[p].r, 0, "404 Quiz result not found"))
         ELSE Continues(p, [proc[p] EXCEPT !.pc = "confirm_refresh",
                  !.user = ResView(p)[proc[p].r].user_id,
                  !.minted = ResView(p)[proc[p].r].nft_minted])
    /\ OnlyProc

\* await db.refresh(quiz_result, ["quiz"]), which reads the quiz and leaves
\* the columns as db.get loaded them, then the check of nft_minted
ConfirmRefresh(p) ==
    /\ proc[p].pc = "confirm_refresh"
    /\ IF RowGone(results, proc[p].r)
         THEN Ends(p, Outcome("api_confirm", "raised", proc[p].pid,
                              proc[p].r, 0, "500 Failed to confirm payment"))
       ELSE IF proc[p].minted
         THEN Ends(p, Outcome("api_confirm", "returned", proc[p].pid,
                              proc[p].r, 0,
                              "NFT already minted for this result"))
         ELSE Continues(p, [proc[p] EXCEPT !.pc = "confirm_tx"])
    /\ OnlyProc

\* await db.execute(select(MintTransaction)...) and the check of the
\* transaction found; then the response is sent and the background task
\* calls mint_nft with the session and the loaded result
ConfirmTx(p) ==
    /\ proc[p].pc = "confirm_tx"
    /\ LET existing == TxIdsOfResult(p, proc[p].r)
       IN  IF existing # {}
                  /\ TxView(p)[FirstOf(existing)].status
                         \in {"pending", "minting"}
               THEN Ends(p, Outcome("api_confirm", "returned", proc[p].pid,
                            proc[p].r, FirstOf(existing),
                            "Minting already in progress"))
               ELSE /\ proc' = [proc EXCEPT ![p] = [IdleProc EXCEPT
                           !.op = "mint", !.pc = "mint_insert",
                           !.r = proc[p].r, !.user = proc[p].user,
                           !.via = "api"]]
                    /\ last' = Outcome("api_confirm", "returned",
                                       proc[p].pid, proc[p].r, 0,
                                       "NFT minting initiated successfully")
    /\ OnlyProc

\* ------------------------------------------------------ NFTService.mint_nft
NewMintTransaction(user_id, result_id) ==
    [user_id |-> user_id, result_id |-> result_id, payment_id |-> 0,
     status |-> "pending", nft_address |-> NULL, error_message |-> NULL,
     retry_count |-> 0]

\* an insert that does not wait for the other session's uncommitted row
TxIndexNoWait(p, r) == FALSE

\* uq_mint_transactions_result_id: the insert waits for a session that
\* holds an uncommitted row of the result
TxIndexWaits(p, r) ==
    \E q \in Procs \ {p} : \E j \in DOMAIN proc[q].tx :
        proc[q].tx[j].result_id = r

\* a column result_id declared without unique=True
UniqueAbsent(result_ids, r) == FALSE

\* unique=True on result_id: an insert is refused when a row the session
\* sees has the value
UniqueViolated(result_ids, r) == r \in result_ids

\* ... and is refused when the result has a row
TxIndexViolated(p, r) ==
    UniqueViolated({TxView(p)[j].result_id : j \in DOMAIN TxView(p)}, r)

\* NFTMetadata(result_id=quiz_result.id, ...); the row's id comes from the
\* table's sequence: the attempt's number stands for it, one attempt
\* inserting at most one row
NewNFTMetadata(result_id, id) == [id |-> id, result_id |-> result_id]

\* session.add(mint_tx); session.flush(), the row made of the attributes
\* of the result the caller loaded.  A refused insert rolls the session's
\* transaction back, and the commit of the except clause raises in turn.
MintInsert(p) ==
    /\ proc[p].pc = "mint_insert"
    /\ ~TxIndexWaits(p, proc[p].r)
    /\ IF TxIndexViolated(p, proc[p].r) \/ ResultKeyViolated(proc[p].r)
         THEN /\ Ends(p, Outcome("mint", "raised", proc[p].r,
                                 proc[p].r, 0, "IntegrityError"))
              /\ UNCHANGED nextTxId
         ELSE /\ nextTxId <= MaxTxs
              /\ Continues(p, [proc[p] EXCEPT !.pc = "mint_image",
                      !.txid = nextTxId,
                      !.tx = (nextTxId :>
                          NewMintTransaction(proc[p].user, proc[p].r))])
              /\ nextTxId' = nextTxId + 1
    /\ UNCHANGED <<payments, results, mintTxs, metadata, nextPaymentId,
                   chainMints, returned, redis, saved, quizzes, nextResultId, nextQuizId>>

\* mint_tx.status = s
WithStatus(row, s) == [row EXCEPT !.status = s]

\* a step went well: the next status is set and flushed
StepOk(p, s, pc) ==
    /\ Continues(p, [proc[p] EXCEPT !.pc = pc,
           !.tx = [@ EXCEPT ![proc[p].txid] = WithStatus(@, s)]])
    /\ OnlyProc

\* str(e): the message the exception was raised with.  An exception of a
\* step is named here by its message; asyncio.TimeoutError, which aiohttp
\* raises without a message when a request has passed the total timeout of
\* its session, is named by its class, and its str() is the empty string
ErrorText(e) == IF e = "TimeoutError" THEN "" ELSE e

\* the row the except clause writes
FailedVersion(row, e) ==
    [row EXCEPT !.status = "failed", !.error_message = ErrorText(e)]

\* except Exception as e: status failed, error_message str(e),
\* session.commit(), raise
StepRaises(p, e) ==
    /\ mintTxs' = [proc[p].tx EXCEPT
                      ![proc[p].txid] = FailedVersion(@, e)] @@ mintTxs
    /\ metadata' = CommitMetadata(p)
    /\ results' = CommitResults(p)
    /\ Ends(p, Outcome("mint", "raised", proc[p].r, proc[p].r,
                       proc[p].txid, e))
    /\ UNCHANGED <<payments, nextPaymentId, nextTxId, chainMints,
                   returned, redis, saved, quizzes, nextResultId, nextQuizId>>

\* what an upload of the storage service meets
UploadAnswers == {"ok", "refused", "timeout"}

\* step 1: _get_result_image, then status uploading_image
MintImage(p, ok) ==
    /\ proc[p].pc = "mint_image"
    /\ IF ok THEN StepOk(p, "uploading_image", "mint_upload_image")
             ELSE StepRaises(p, "image generation failed")

\* step 2: storage_service.upload_image, then status generating_metadata.
\* The storage provider answers well ("ok"), answers with a status other
\* than 200 ("refused"), or does not answer within the total timeout of the
\* client session ("timeout")
MintUploadImage(p, answer) ==
    /\ proc[p].pc = "mint_upload_image"
    /\ CASE answer = "ok" ->
               StepOk(p, "generating_metadata", "mint_metadata")
         [] answer = "refused" -> StepRaises(p, "Failed to upload image")
         [] answer = "timeout" -> StepRaises(p, "TimeoutError")

\* what reading a relationship that is not loaded raises in an AsyncSession:
\* MissingGreenlet; for the objects of the endpoint's session, which the
\* framework may have closed before it runs the background task,
\* DetachedInstanceError as well
LazyLoadErrors(via) ==
    IF via = "api" THEN {"MissingGreenlet", "DetachedInstanceError"}
                   ELSE {"MissingGreenlet"}

\* step 3: generate_nft_metadata reads quiz.result_types and
\* quiz.questions, validate_metadata checks the dictionary; then status
\* uploading_metadata
MintMetadata(p, ok) ==
    /\ proc[p].pc = "mint_metadata"
    /\ IF "quiz" \notin proc[p].loaded
         THEN \E e \in LazyLoadErrors(proc[p].via) : StepRaises(p, e)
       ELSE IF ok
         THEN StepOk(p, "uploading_metadata", "mint_upload_metadata")
         ELSE StepRaises(p, "Generated metadata is invalid")

\* a pipeline that marks the result minted before the chain call
MintUploadMetadataMarksMinted(p, answer) ==
    /\ proc[p].pc = "mint_upload_metadata"
    /\ IF answer = "refused" THEN StepRaises(p, "Failed to upload JSON")
       ELSE IF answer = "timeout" THEN StepRaises(p, "TimeoutError")
       ELSE /\ Continues(p, [proc[p] EXCEPT !.pc = "mint_chain",
                   !.meta = @ \cup {NewNFTMetadata(proc[p].r, proc[p].txid)},
                   !.res = (proc[p].r :> [ResView(p)[proc[p].r] EXCEPT
                               !.nft_minted = TRUE,
                               !.nft_address = "EQD...1"]),
                   !.tx = [@ EXCEPT ![proc[p].txid] =
                              WithStatus(@, "minting")]])
            /\ OnlyProc

\* steps 4 and 5: storage_service.upload_json, the NFTMetadata row, then
\* status minting
MintUploadMetadata(p, answer) ==
    /\ proc[p].pc = "mint_upload_metadata"
    /\ IF answer = "refused" THEN StepRaises(p, "Failed to upload JSON")
       ELSE IF answer = "timeout" THEN StepRaises(p, "TimeoutError")
       ELSE IF UniqueViolated({m.result_id :
                                  m \in metadata \cup proc[p].meta},
                              proc[p].r)
           THEN /\ Ends(p, Outcome("mint", "raised", proc[p].r,
                                   proc[p].r, 0, "IntegrityError"))
                /\ OnlyProc
       ELSE /\ Continues(p, [proc[p] EXCEPT !.pc = "mint_chain",
                   !.meta = @ \cup {NewNFTMetadata(proc[p].r, proc[p].txid)},
                   !.tx = [@ EXCEPT ![proc[p].txid] =
                              WithStatus(@, "minting")]])
            /\ OnlyProc

\* f"EQD...{owner_address}"
NftAddress(user_id) == IF user_id = 1 THEN "EQD...1" ELSE "EQD...2"

\* a _mint_on_blockchain that sends the mint before it looks at the
\* wallet's health
MintOnBlockchainChecksLate(p, outcome) ==
    /\ proc[p].pc = "mint_chain"
    /\ CASE "user" \notin proc[p].loaded -> StepRaises(p, "MissingGreenlet")
         [] outcome = "unhealthy" ->
              /\ chainMints' = [chainMints EXCEPT ![proc[p].r] = @ + 1]
              /\ mintTxs' = [proc[p].tx EXCEPT ![proc[p].txid] =
                                FailedVersion(@, "Wallet unhealthy")]
                            @@ mintTxs
              /\ metadata' = CommitMetadata(p)
              /\ results' = CommitResults(p)
              /\ Ends(p, Outcome("mint", "raised", proc[p].r, proc[p].r,
                                 proc[p].txid, "Wallet unhealthy"))
              /\ UNCHANGED <<payments, nextPaymentId, nextTxId, returned, redis, saved, quizzes, nextResultId, nextQuizId>>
         [] outcome = "ok" ->
              /\ chainMints' = [chainMints EXCEPT ![proc[p].r] = @ + 1]
              /\ Continues(p, [proc[p] EXCEPT !.pc = "mint_complete",
                     !.addr = NftAddress(proc[p].user)])
              /\ UNCHANGED <<payments, results, mintTxs, metadata,
                             nextPaymentId, nextTxId, returned, redis, saved, quizzes, nextResultId, nextQuizId>>

\* step 6: the argument quiz_result.user.telegram_id is read, then
\* _mint_on_blockchain: the wallet health check, whose errors health_check
\* turns into an unhealthy report, then the placeholder of the chain call,
\* which sleeps and makes up the address and raises nothing
MintOnBlockchain(p, outcome) ==
    /\ proc[p].pc = "mint_chain"
    /\ CASE "user" \notin proc[p].loaded -> StepRaises(p, "MissingGreenlet")
         [] outcome = "unhealthy" -> StepRaises(p, "Wallet unhealthy")
         [] outcome = "ok" ->
              /\ chainMints' = [chainMints EXCEPT ![proc[p].r] = @ + 1]
              /\ Continues(p, [proc[p] EXCEPT !.pc = "mint_complete",
                     !.addr = NftAddress(proc[p].user)])
              /\ UNCHANGED <<payments, results, mintTxs, metadata,
                             nextPaymentId, nextTxId, returned, redis, saved, quizzes, nextResultId, nextQuizId>>

\* the rows step 7 writes
CompletedVersion(row, addr) ==
    [row EXCEPT !.status = "completed", !.nft_address = addr]
\* a step 7 that stores the address and leaves the flag
MintedVersionUnflagged(row, addr) == [row EXCEPT !.nft_address = addr]

MintedVersion(row, addr) ==
    [row EXCEPT !.nft_minted = TRUE, !.nft_address = addr]

\* step 7: transaction completed, result minted, session.commit()
MintComplete(p) ==
    /\ proc[p].pc = "mint_complete"
    /\ mintTxs' = [proc[p].tx EXCEPT ![proc[p].txid] =
                      CompletedVersion(@, proc[p].addr)] @@ mintTxs
    /\ results' = [results EXCEPT ![proc[p].r] =
                      MintedVersion(@, proc[p].addr)]
    /\ metadata' = CommitMetadata(p)
    /\ Ends(p, Outcome("mint", "returned", proc[p].r, proc[p].r,
                       proc[p].txid, NULL))
    /\ UNCHANGED <<payments, nextPaymentId, nextTxId, chainMints,
                   returned, redis, saved, quizzes, nextResultId, nextQuizId>>

\* the relationships a caller of mint_nft may have loaded before the call:
\* quiz stands for quiz.result_types and quiz.questions, user for
\* quiz_result.user
Relationships == {"quiz", "user"}

\* mint_nft(session, quiz_result, quiz) called with a session of the
\* caller's and a result it has read, as the tests of the service call it
MintNft(p, r, loaded) ==
    /\ Free(p)
    /\ r \in DOMAIN results
    /\ Continues(p, [IdleProc EXCEPT !.op = "mint", !.pc = "mint_insert",
           !.r = r, !.user = results[r].user_id, !.via = "direct",
           !.loaded = loaded])
    /\ OnlyProc

\* --------------------------------------------- NFTService.retry_failed_mint
\* a reset that adds more to retry_count than the budget allows
RetryVersionStepsOverBudget(row) ==
    [row EXCEPT !.status = "pending", !.error_message = NULL,
                !.retry_count = @ + max_retries + 1]

\* the row retry_failed_mint sets up
RetryVersion(row) ==
    [row EXCEPT !.status = "pending", !.error_message = NULL,
                !.retry_count = @ + 1]

\* a retry_failed_mint without the check of the status
RetryFailedMintAnyStatus(p, mint_tx_id, loaded) ==
    /\ Free(p)
    /\ LET found == mint_tx_id \in DOMAIN TxView(p)
           mint_tx == TxView(p)[mint_tx_id]
           Raised(e) == Outcome("retry", "raised", mint_tx_id,
                                IF found THEN mint_tx.result_id ELSE 0, 0, e)
       IN  IF ~found
               THEN Ends(p, Raised("MintTransaction not found"))
           ELSE IF ~loaded
               THEN Ends(p, Raised("MissingGreenlet"))
           ELSE IF RetryVersion(mint_tx).retry_count > max_retries
               THEN Ends(p, [Raised("Maximum retries exceeded") EXCEPT
                        !.obj = (mint_tx_id :> RetryVersion(mint_tx))])
           ELSE Continues(p, [IdleProc EXCEPT !.op = "retry",
                    !.pc = "retry_flush", !.txid = mint_tx_id,
                    !.r = mint_tx.result_id, !.user = mint_tx.user_id])
    /\ OnlyProc

\* loaded: the transaction's quiz result is already in the session, so
\* that mint_tx.result needs no query
RetryFailedMint(p, mint_tx_id, loaded) ==
    /\ Free(p)
    /\ LET found == mint_tx_id \in DOMAIN TxView(p)
           mint_tx == TxView(p)[mint_tx_id]
           Raised(e) == Outcome("retry", "raised", mint_tx_id,
                                IF found THEN mint_tx.result_id ELSE 0, 0, e)
       IN  IF ~found
               THEN Ends(p, Raised("MintTransaction not found"))
           ELSE IF mint_tx.status # "failed"
               THEN Ends(p, Raised("Cannot retry transaction"))
           ELSE IF ~loaded
               THEN Ends(p, Raised("MissingGreenlet"))
           ELSE IF RetryVersion(mint_tx).retry_count > max_retries
               THEN Ends(p, [Raised("Maximum retries exceeded") EXCEPT
                        !.obj = (mint_tx_id :> RetryVersion(mint_tx))])
           ELSE Continues(p, [IdleProc EXCEPT !.op = "retry",
                    !.pc = "retry_flush", !.txid = mint_tx_id,
                    !.r = mint_tx.result_id, !.user = mint_tx.user_id])
    /\ OnlyProc

\* session.flush() of the reset row, which waits while another session
\* holds the row written, then mint_nft with mint_tx.result and its quiz
RetryFlush(p) ==
    /\ proc[p].pc = "retry_flush"
    /\ \A q \in Procs \ {p} : proc[p].txid \notin DOMAIN proc[q].tx
    /\ IF RowGone(mintTxs, proc[p].txid)
         THEN Ends(p, Outcome("retry", "raised", proc[p].txid, proc[p].r,
                              0, "StaleDataError"))
         ELSE Continues(p, [IdleProc EXCEPT !.op = "mint",
                  !.pc = "mint_insert", !.r = proc[p].r,
                  !.user = proc[p].user, !.via = "retry",
                  !.tx = (proc[p].txid :>
                             RetryVersion(mintTxs[proc[p].txid]))])
    /\ OnlyProc

\* ------------------------------------------ quiz_service.save_quiz_result
\* session.add(QuizResult(...)); session.commit() in a session of the
\* call's own; quiz_results.quiz_id references quizzes.id
SaveQuizResult(p, user_id, quiz_id) ==
    /\ Free(p)
    /\ nextResultId <= NumResults
    /\ IF quiz_id \notin quizzes
         THEN /\ Ends(p, [Outcome("save_result", "raised", quiz_id, 0, 0,
                                  "IntegrityError")
                             EXCEPT !.user = user_id])
              /\ UNCHANGED <<results, nextResultId>>
         ELSE /\ results' = (nextResultId :> NewQuizResult(user_id, quiz_id))
                            @@ results
              /\ nextResultId' = nextResultId + 1
              /\ Continues(p, [IdleProc EXCEPT !.op = "save_result",
                      !.pc = "save_refresh", !.r = nextResultId,
                      !.user = user_id, !.quiz = quiz_id])
    /\ UNCHANGED <<payments, mintTxs, metadata, nextPaymentId, nextTxId,
                   chainMints, returned, redis, saved, quizzes, nextQuizId>>

\* session.refresh(quiz_result): the SELECT of the row by its key; a row
\* that was deleted since the commit is an InvalidRequestError
SaveRefresh(p) ==
    /\ proc[p].pc = "save_refresh"
    /\ Ends(p, [Outcome("save_result",
                        IF RowGone(results, proc[p].r) THEN "raised"
                        ELSE "returned",
                        proc[p].quiz, proc[p].r,
                        IF RowGone(results, proc[p].r) THEN 0 ELSE proc[p].r,
                        IF RowGone(results, proc[p].r)
                            THEN "InvalidRequestError" ELSE NULL)
                   EXCEPT !.user = proc[p].user])
    /\ OnlyProc

\* ---------------------------------------------------- endpoint create_quiz
\* db.add(quiz); db.flush(): the row takes the next id of the sequence and
\* stays in the session of the request.  The flushes that follow insert the
\* questions, rows of the same session that the model does not carry.
CreateQuiz(p) ==
    /\ Free(p)
    /\ nextQuizId <= MaxQuizzes
    /\ nextQuizId' = nextQuizId + 1
    /\ Continues(p, [IdleProc EXCEPT !.op = "create_quiz",
             !.pc = "create_quiz_commit", !.quiz = nextQuizId])
    /\ UNCHANGED <<payments, results, mintTxs, metadata, nextPaymentId,
                   nextTxId, chainMints, returned, redis, saved, quizzes,
                   nextResultId>>

\* db.commit()
CreateQuizCommit(p) ==
    /\ proc[p].pc = "create_quiz_commit"
    /\ quizzes' = quizzes \cup {proc[p].quiz}
    /\ Continues(p, [proc[p] EXCEPT !.pc = "create_quiz_refresh"])
    /\ UNCHANGED <<payments, results, mintTxs, metadata, nextPaymentId,
                   nextTxId, chainMints, returned, redis, saved,
                   nextResultId, nextQuizId>>

\* db.refresh(quiz): the InvalidRequestError for a row that is gone is
\* caught by except Exception
CreateQuizRefresh(p) ==
    /\ proc[p].pc = "create_quiz_refresh"
    /\ IF proc[p].quiz \notin quizzes
         THEN Ends(p, Outcome("create_quiz", "raised", proc[p].quiz, 0, 0,
                              "500 Failed to create quiz"))
         ELSE Continues(p, [proc[p] EXCEPT !.pc = "create_quiz_load"])
    /\ OnlyProc

\* get_quiz_by_id(quiz.id) in a session of its own; the answer is 201 with
\* the quiz, and the HTTPException for a quiz that is gone is caught by
\* except Exception like any other
CreateQuizLoad(p) ==
    /\ proc[p].pc = "create_quiz_load"
    /\ IF proc[p].quiz \notin quizzes
         THEN Ends(p, Outcome("create_quiz", "raised", proc[p].quiz, 0, 0,
                              "500 Failed to create quiz"))
         ELSE Ends(p, Outcome("create_quiz", "returned", proc[p].quiz, 0,
                              proc[p].quiz, NULL))
    /\ OnlyProc

\* ---------------------------------------------------- endpoint delete_quiz
\* db.get(Quiz, quiz_id): 404 when there is no such row
DeleteQuiz(p, quiz_id) ==
    /\ Free(p)
    /\ IF quiz_id \notin quizzes
         THEN Ends(p, Outcome("delete_quiz", "raised", quiz_id, 0, 0,
                              "404 Quiz not found"))
         ELSE Continues(p, [IdleProc EXCEPT !.op = "delete_quiz",
                  !.pc = "delete_mark", !.quiz = quiz_id])
    /\ OnlyProc

\* db.delete(quiz): the session loads the rows the relationships cascade to
\* and marks them; nothing is written
DeleteMark(p) ==
    /\ proc[p].pc = "delete_mark"
    /\ Continues(p, [proc[p] EXCEPT !.pc = "delete_commit"])
    /\ OnlyProc

\* db.commit(): with the quiz go its results (quiz_results.quiz_id ON DELETE
\* CASCADE) and with a result its payments, its mint transaction and its
\* metadata (result_id ON DELETE CASCADE).  The DELETE of a row a session
\* has locked, or that a row it inserted references, waits for that session
\* to end; a DELETE that finds its row gone deletes nothing, and the answer
\* is 204 all the same.
DeleteCommit(p) ==
    /\ proc[p].pc = "delete_commit"
    /\ \A q \in Procs :
          /\ proc[q].pay = Empty /\ proc[q].tx = Empty
          /\ proc[q].meta = {} /\ proc[q].res = Empty
    /\ LET gone == {r \in DOMAIN results :
                       results[r].quiz_id = proc[p].quiz}
           left == DOMAIN results \ gone
           Without(table, rs) ==
               LET kept == {i \in DOMAIN table :
                               table[i].result_id \notin rs}
               IN  IF kept = {} THEN Empty
                   ELSE [i \in kept |-> table[i]]
       IN  /\ results' = IF left = {} THEN Empty
                         ELSE [r \in left |-> results[r]]
           /\ payments' = Without(payments, gone)
           /\ mintTxs' = Without(mintTxs, gone)
           /\ metadata' = {m \in metadata : m.result_id \notin gone}
    /\ quizzes' = quizzes \ {proc[p].quiz}
    /\ Ends(p, Outcome("delete_quiz", "returned", proc[p].quiz, 0, 0, NULL))
    /\ UNCHANGED <<nextPaymentId, nextTxId, chainMints, returned, redis,
                   saved, nextResultId, nextQuizId>>

\* ------------------------------------------------------------ the system
\* the payment service and its callers
PaymentServiceStep ==
    \/ \E p \in Handlers, q \in QuizIds :
          SaveQuizResult(p, Owner(nextResultId), q)
    \/ \E p \in Handlers : SaveRefresh(p)
    \/ \E p \in Handlers, u \in Users, r \in AskedResultIds, pr \in ProviderArgs :
          CreateMintPayment(p, u, r, pr)
    \/ \E p \in Handlers : CreateQuery(p)
    \/ \E p \in Handlers : CreateFlush(p)
    \/ \E p \in Handlers : CreateRequery(p)
    \/ \E p \in Handlers : CreateCommit(p)
    \/ \E p \in Handlers, payload \in Payloads, c \in OneCharge :
          HandleSuccessfulPayment(p, "hsp", payload, c[1], c[2])
    \/ \E p \in Handlers : HspFlush(p)
    \/ \E p \in Handlers : HspCommit(p)
    \/ \E p \in Handlers, i \in AskedPaymentIds : MarkPaymentFailed(p, i)
    \/ \E p \in Handlers : MpfFlush(p)
    \/ \E p \in Handlers : MpfCommit(p)
    \/ \E p \in Handlers, i \in AskedPaymentIds : RefundPayment(p, i)
    \/ \E p \in Handlers : RefundFlush(p)
    \/ \E p \in Handlers : RefundCommit(p)

SpecPay == Database(QuizIds) /\ [][PaymentServiceStep]_vars

\* the callbacks of the payment provider with any charge ids, for payments
\* created with arguments that pass the validation
CallbackStep ==
    \/ \E p \in Handlers, q \in QuizIds :
          SaveQuizResult(p, Owner(nextResultId), q)
    \/ \E p \in Handlers : SaveRefresh(p)
    \/ \E p \in Handlers, r \in Results :
          CreateMintPayment(p, Owner(r), r, "telegram_stars")
    \/ \E p \in Handlers : CreateQuery(p)
    \/ \E p \in Handlers : CreateFlush(p)
    \/ \E p \in Handlers : CreateRequery(p)
    \/ \E p \in Handlers : CreateCommit(p)
    \/ \E p \in Handlers, payload \in Payloads, c \in Charges :
          HandleSuccessfulPayment(p, "hsp", payload, c[1], c[2])
    \/ \E p \in Handlers : HspFlush(p)
    \/ \E p \in Handlers : HspCommit(p)

SpecCallback == Database(QuizIds) /\ [][CallbackStep]_vars

\* concurrent calls of create_mint_payment and nothing else
CreateStep ==
    \/ \E p \in Handlers, q \in QuizIds :
          SaveQuizResult(p, Owner(nextResultId), q)
    \/ \E p \in Handlers : SaveRefresh(p)
    \/ \E p \in Callers, u \in Users, r \in AskedResultIds, pr \in ProviderArgs :
          CreateMintPayment(p, u, r, pr)
    \/ \E p \in Callers : CreateQuery(p)
    \/ \E p \in Callers : CreateFlush(p)
    \/ \E p \in Callers : CreateRequery(p)
    \/ \E p \in Callers : CreateCommit(p)

SpecCreate == Database(QuizIds) /\ [][CreateStep]_vars

\* the program on the database after the migrations: the creation of a
\* quiz, quiz completion and quiz deletion, the handlers of the bot and of
\* the API, and the services mint_nft and retry_failed_mint called directly.
\* The one result gets one payment and one transaction at most here, so
\* of the ids 1..MaxPayments and 1..MaxTxs that are asked for the last is
\* one that is never stored; a provider that is refused before anything is
\* read is asked for by one user for one result.
Next ==
    \/ \E p \in Handlers, q \in 1..MaxQuizzes :
          SaveQuizResult(p, Owner(nextResultId), q)
    \/ \E p \in Handlers : SaveRefresh(p)
    \/ \E p \in Handlers : CreateQuiz(p)
    \/ \E p \in Handlers : CreateQuizCommit(p)
    \/ \E p \in Handlers : CreateQuizRefresh(p)
    \/ \E p \in Handlers : CreateQuizLoad(p)
    \/ \E p \in Handlers, q \in 1..MaxQuizzes : DeleteQuiz(p, q)
    \/ \E p \in Handlers : DeleteMark(p)
    \/ \E p \in Handlers : DeleteCommit(p)
    \/ \E p \in Handlers, u \in Users, r \in AskedResultIds :
          CreateMintPayment(p, u, r, "telegram_stars")
    \/ \E p \in Handlers, pr \in ProviderArgs \ {"telegram_stars"} :
          CreateMintPayment(p, 1, 1, pr)
    \/ \E p \in Handlers : CreateQuery(p)
    \/ \E p \in Handlers : CreateFlush(p)
    \/ \E p \in Handlers : CreateRequery(p)
    \/ \E p \in Handlers : CreateCommit(p)
    \/ \E p \in Handlers, i \in PaymentIds, r \in Results, c \in OneCharge :
          HandleSuccessfulPayment(p, "bot_paid", InvoicePayload(i, r),
                                  c[1], c[2])
    \/ \E p \in Handlers, c \in OneCharge :
          HandleSuccessfulPayment(p, "bot_paid",
              StrNft \o <<"_">> \o StrMint \o <<"_", "1">>, c[1], c[2])
    \/ \E p \in Handlers : HspFlush(p)
    \/ \E p \in Handlers : BotLoadResult(p)
    \/ \E p \in Handlers : BotRefresh(p)
    \/ \E p \in Handlers : BotCommit(p)
    \/ \E p \in Handlers, sent \in BOOLEAN : BotAnswer(p, sent)
    \/ \E p \in Handlers, i \in PaymentIds, u \in Users :
          ConfirmMintPayment(p, i, u)
    \/ \E p \in Handlers : ConfirmResult(p)
    \/ \E p \in Handlers : ConfirmRefresh(p)
    \/ \E p \in Handlers : ConfirmTx(p)
    \/ \E p \in Handlers, r \in Results, l \in SUBSET Relationships :
          MintNft(p, r, l)
    \/ \E p \in Handlers : MintInsert(p)
    \/ \E p \in Handlers, ok \in BOOLEAN : MintImage(p, ok)
    \/ \E p \in Handlers, a \in UploadAnswers : MintUploadImage(p, a)
    \/ \E p \in Handlers, ok \in BOOLEAN : MintMetadata(p, ok)
    \/ \E p \in Handlers, a \in UploadAnswers : MintUploadMetadata(p, a)
    \/ \E p \in Handlers, o \in {"ok", "unhealthy"} :
          MintOnBlockchain(p, o)
    \/ \E p \in Handlers : MintComplete(p)
    \/ \E p \in Handlers, i \in TxIds, l \in BOOLEAN :
          RetryFailedMint(p, i, l)
    \/ \E p \in Handlers : RetryFlush(p)

Spec == Init /\ [][Next]_vars

\* the process dies while handler p is between two steps of mint_nft: the
\* database rolls back the session's open transaction, and with it every
\* flush since the insert; obj keeps the row as the attempt had flushed it
Crash(p) ==
    /\ proc[p].op = "mint"
    /\ proc[p].txid \in DOMAIN proc[p].tx
    /\ Ends(p, [Outcome("mint", "crashed", proc[p].txid, proc[p].r, 0, NULL)
                   EXCEPT !.obj = proc[p].tx])
    /\ OnlyProc

\* mint attempts, each of which may be cut off by the death of the process
CrashStep ==
    \/ \E p \in Handlers, q \in QuizIds :
          SaveQuizResult(p, Owner(nextResultId), q)
    \/ \E p \in Handlers : SaveRefresh(p)
    \/ \E p \in Handlers, r \in Results, l \in SUBSET Relationships :
          MintNft(p, r, l)
    \/ \E p \in Handlers : MintInsert(p)
    \/ \E p \in Handlers, ok \in BOOLEAN : MintImage(p, ok)
    \/ \E p \in Handlers, a \in UploadAnswers : MintUploadImage(p, a)
    \/ \E p \in Handlers, ok \in BOOLEAN : MintMetadata(p, ok)
    \/ \E p \in Handlers, a \in UploadAnswers : MintUploadMetadata(p, a)
    \/ \E p \in Handlers, o \in {"ok", "unhealthy"} :
          MintOnBlockchain(p, o)
    \/ \E p \in Handlers : MintComplete(p)
    \/ \E p \in Handlers : Crash(p)

SpecCrash == Database(QuizIds) /\ [][CrashStep]_vars

\* A coroutine that can go on is run by the event loop: the steps of
\* mint_nft that compute locally (the image, the metadata, the final writes)
\* are taken.
LocalFairness ==
    \A p \in Handlers :
        /\ WF_vars(\E ok \in BOOLEAN : MintImage(p, ok))
        /\ WF_vars(\E ok \in BOOLEAN : MintMetadata(p, ok))
        /\ WF_vars(MintComplete(p))

\* An upload ends: the storage service posts through aiohttp.ClientSession()
\* with the library's default ClientTimeout(total=300), so a request that is
\* not answered raises asyncio.TimeoutError (the answer "timeout"), which
\* upload_image and upload_json raise again.  The source sets no timeout of
\* its own; this condition grants the library's.
UploadFairness ==
    \A p \in Handlers :
        /\ WF_vars(\E a \in UploadAnswers : MintUploadImage(p, a))
        /\ WF_vars(\E a \in UploadAnswers : MintUploadMetadata(p, a))

\* _mint_on_blockchain awaits wallet_service.health_check with no timeout of
\* its own and none given to the TON API client: nothing makes a call that
\* never answers end
SpecNoTimeout == Init /\ [][Next]_vars /\ LocalFairness /\ UploadFairness

\* payloads of a pre-checkout query: nft_mint_1_x beside the others
PreCheckoutPayloads ==
    Payloads \cup {StrNft \o <<"_">> \o StrMint \o <<"_", "1", "_", "x">>}

\* the pre-checkout query of the bot beside a payment being created, paid
\* for and marked failed, and beside mints whose external calls all answer
\* well: the bot's, and one by a caller that has the relationships loaded
PreCheckoutStep ==
    \/ \E p \in Handlers, q \in QuizIds :
          SaveQuizResult(p, Owner(nextResultId), q)
    \/ \E p \in Handlers : SaveRefresh(p)
    \/ \E p \in Handlers, payload \in PreCheckoutPayloads :
          HandlePreCheckout(p, payload)
    \/ \E p \in Handlers : PreCheckoutResult(p)
    \/ \E p \in Handlers : MarkPaymentFailed(p, 1)
    \/ \E p \in Handlers : MpfFlush(p)
    \/ \E p \in Handlers : MpfCommit(p)
    \/ \E p \in Handlers, r \in Results :
          CreateMintPayment(p, Owner(r), r, "telegram_stars")
    \/ \E p \in Handlers : CreateQuery(p)
    \/ \E p \in Handlers : CreateFlush(p)
    \/ \E p \in Handlers : CreateRequery(p)
    \/ \E p \in Handlers : CreateCommit(p)
    \/ \E p \in Handlers, i \in PaymentIds, r \in Results, c \in OneCharge :
          HandleSuccessfulPayment(p, "bot_paid", InvoicePayload(i, r),
                                  c[1], c[2])
    \/ \E p \in Handlers : HspFlush(p)
    \/ \E p \in Handlers : BotLoadResult(p)
    \/ \E p \in Handlers : BotRefresh(p)
    \/ \E p \in Handlers : BotCommit(p)
    \/ \E p \in Handlers, sent \in BOOLEAN : BotAnswer(p, sent)
    \/ \E p \in Handlers, r \in Results : MintNft(p, r, Relationships)
    \/ \E p \in Handlers : MintInsert(p)
    \/ \E p \in Handlers : MintImage(p, TRUE)
    \/ \E p \in Handlers : MintUploadImage(p, "ok")
    \/ \E p \in Handlers : MintMetadata(p, TRUE)
    \/ \E p \in Handlers : MintUploadMetadata(p, "ok")
    \/ \E p \in Handlers : MintOnBlockchain(p, "ok")
    \/ \E p \in Handlers : MintComplete(p)

SpecPreCheckout == Database(QuizIds) /\ [][PreCheckoutStep]_vars

\* ------------------------------------------------ the payload token alone
MaxTokenId == 12
TokenIds == 1..MaxTokenId

\* what the first lines of handle_pre_checkout make of a payload: both ids,
\* or the refusal
PreCheckoutParse(invoice_payload) ==
    LET parts == Split(invoice_payload, "_")
    IN  IF ~PayloadShapeOk(parts)
            THEN [ok |-> FALSE, payment_id |-> 0, result_id |-> 0,
                  err |-> "Invalid invoice payload"]
        ELSE IF ~IsIntStr(parts[3]) \/ ~IsIntStr(parts[4])
            THEN [ok |-> FALSE, payment_id |-> 0, result_id |-> 0,
                  err |-> "Validation error"]
        ELSE [ok |-> TRUE, payment_id |-> ParseInt(parts[3]),
              result_id |-> ParseInt(parts[4]), err |-> NULL]

\* what the first lines of handle_successful_payment make of a payload: the
\* payment id only (result_id 0: the fourth part is not read)
SuccessfulPaymentParse(invoice_payload) ==
    LET parts == Split(invoice_payload, "_")
    IN  IF ~PayloadShapeOk(parts)
            THEN [ok |-> FALSE, payment_id |-> 0, result_id |-> 0,
                  err |-> "Invalid invoice payload"]
        ELSE IF ~IsIntStr(parts[3])
            THEN [ok |-> FALSE, payment_id |-> 0, result_id |-> 0,
                  err |-> "invalid literal for int()"]
        ELSE [ok |-> TRUE, payment_id |-> ParseInt(parts[3]),
              result_id |-> 0, err |-> NULL]

\* parts a payload that no invoice carries may be made of
ForeignIds ==
    {<<"1">>, <<"1", "2">>, <<"0", "1">>, <<"+", "1">>, <<"-", "1">>,
     <<" ", "1">>, <<"\t", "1">>, <<"1", "\n">>, <<"U+0085", "1">>,
     <<"U+001C", "1">>, <<"1", "U+001D">>, <<"U+0661">>, <<"U+07C1">>,
     <<"U+FF11", "2">>, <<"x">>, <<>>, <<"1", "x">>}
RECURSIVE Join(_, _)
Join(parts, sep) ==
    IF Len(parts) = 1 THEN parts[1]
    ELSE parts[1] \o <<sep>> \o Join(Tail(parts), sep)
ForeignPayloads ==
    {Join(<<StrNft, StrMint, i, r>>, "_") : i \in ForeignIds, r \in ForeignIds}
    \cup {Join(<<h, k, i, r>>, "_") :
              h \in {StrNft, <<"N", "F", "T">>, <<>>},
              k \in {StrMint, <<"b", "u", "r", "n">>},
              i \in {<<"1">>, <<"x">>}, r \in {<<"1">>, <<"x">>}}
    \cup {Join(<<StrNft, StrMint, i>>, "_") : i \in ForeignIds}
    \cup {Join(<<StrNft, StrMint, i, <<"1">>, <<"1">> >>, "_") :
              i \in ForeignIds}

\* create_stars_invoice for a payment row with this id, result and currency
CreateStarsInvoice(payment_id, result_id, currency) ==
    /\ last' = IF currency # "STARS"
                 THEN Outcome("invoice", "raised", payment_id, result_id, 0,
                              "Payment is not for Telegram Stars")
                 ELSE [Outcome("invoice", "returned", payment_id, result_id,
                               payment_id, NULL)
                          EXCEPT !.payload = InvoicePayload(payment_id,
                                                            result_id)]
    /\ UNCHANGED <<payments, results, mintTxs, metadata, nextPaymentId,
                   nextTxId, chainMints, proc, returned, redis, saved, quizzes, nextResultId, nextQuizId>>

\* a callback brings a payload to both parsers
ParsePayload(invoice_payload) ==
    /\ last' = [Outcome("parse", "returned", 0, 0, 0, NULL) EXCEPT
                   !.payload = invoice_payload,
                   !.parsed = [pre |-> PreCheckoutParse(invoice_payload),
                               hsp |-> SuccessfulPaymentParse(invoice_payload)]]
    /\ UNCHANGED <<payments, results, mintTxs, metadata, nextPaymentId,
                   nextTxId, chainMints, proc, returned, redis, saved, quizzes, nextResultId, nextQuizId>>

\* the payload of the invoice just built comes back, or another payload is
\* sent
TokenStep ==
    \/ \E i \in TokenIds, r \in TokenIds, c \in {"STARS", "TON"} :
          CreateStarsInvoice(i, r, c)
    \/ /\ last.op = "invoice" /\ last.how = "returned"
       /\ ParsePayload(last.payload)
    \/ \E t \in ForeignPayloads : ParsePayload(t)

SpecToken == Database(QuizIds) /\ [][TokenStep]_vars

\* ------------------------------------------- quiz_service.calculate_result
MaxAnswers == 2
MaxWeight == 2
MaxAnswerIds == 3
MaxRepeats == 2
ResultTypes == {"gryffindor", "slytherin"}
Weights == 1..MaxWeight

\* a quiz is its answers by id, each with a result type and a weight
Quizzes ==
    UNION {[1..k -> [result_type : ResultTypes, weight : Weights]] :
               k \in 0..MaxAnswers}

\* the orders in which the answers of a quiz can come out of
\* quiz.questions and question.answers
LoadOrders(quiz) ==
    {o \in [DOMAIN quiz -> DOMAIN quiz] :
         \A i, j \in DOMAIN quiz : i # j => o[i] # o[j]}

\* the answer id lists a caller may send: ids of the quiz and one that is
\* in no quiz, repeated or not
AnswerIdLists == UNION {[1..n -> 1..(MaxAnswers + 1)] : n \in 0..MaxAnswerIds}

\* answer_map[answer.id] = answer over the loaded answers
RECURSIVE AnswerMap(_, _)
AnswerMap(quiz, order) ==
    IF order = <<>> THEN <<>>
    ELSE LET id == order[Len(order)]
         IN  (id :> quiz[id]) @@ AnswerMap(quiz, SubSeq(order, 1, Len(order) - 1))

\* set(answer_ids) - set(answer_map.keys())
InvalidIds(answer_map, answer_ids) ==
    {answer_ids[i] : i \in DOMAIN answer_ids} \ DOMAIN answer_map

\* scores[answer.result_type] += answer.weight over answer_ids; the dict
\* keeps its keys in the order of their first insertion
RECURSIVE Scores(_, _)
Scores(answer_map, answer_ids) ==
    IF answer_ids = <<>> THEN <<>>
    ELSE LET before == Scores(answer_map,
                              SubSeq(answer_ids, 1, Len(answer_ids) - 1))
             answer == answer_map[answer_ids[Len(answer_ids)]]
         IN  IF \E k \in DOMAIN before :
                    before[k].result_type = answer.result_type
                 THEN [k \in DOMAIN before |->
                         IF before[k].result_type = answer.result_type
                             THEN [before[k] EXCEPT !.score = @ + answer.weight]
                             ELSE before[k]]
                 ELSE Append(before, [result_type |-> answer.result_type,
                                      score |-> answer.weight])

\* a max that keeps the last of the largest
MaxKeyLast(scores) ==
    CHOOSE k \in DOMAIN scores :
        /\ \A j \in DOMAIN scores : scores[j].score <= scores[k].score
        /\ \A j \in DOMAIN scores : j > k => scores[j].score < scores[k].score

\* max(scores, key=scores.get): the first key in the dict's order whose
\* score no other exceeds
MaxKey(scores) ==
    CHOOSE k \in DOMAIN scores :
        /\ \A j \in DOMAIN scores : scores[j].score <= scores[k].score
        /\ \A j \in DOMAIN scores : j < k => scores[j].score < scores[k].score

\* calculate_result raises ValueError(e)
CalcRaised(e) ==
    [how |-> "raised", result_type |-> NULL, score |-> 0, err |-> e]

\* a calculate_result that adds up the answers in the order the quiz loads
\* them instead of the order of answer_ids
CalculateResultByLoadOrder(quiz, order, answer_ids) ==
    LET answer_map == AnswerMap(quiz, order)
        Times(id) == Cardinality({i \in DOMAIN answer_ids : answer_ids[i] = id})
        RepeatId(id) == [i \in 1..Times(id) |-> id]
        RECURSIVE InOrder(_)
        InOrder(o) == IF o = <<>> THEN <<>>
                      ELSE RepeatId(Head(o)) \o InOrder(Tail(o))
        scores == Scores(answer_map, InOrder(order))
    IN  IF InvalidIds(answer_map, answer_ids) # {}
            THEN CalcRaised("Invalid answer IDs for this quiz")
        ELSE IF scores = <<>>
            THEN CalcRaised("No answers provided")
        ELSE [how |-> "returned",
              result_type |-> scores[MaxKey(scores)].result_type,
              score |-> scores[MaxKey(scores)].score, err |-> NULL]

\* a validation that looks at the first answer id only
CalculateResultFirstIdChecked(quiz, order, answer_ids) ==
    LET answer_map == AnswerMap(quiz, order)
        kept == SelectSeq(answer_ids, LAMBDA id : id \in DOMAIN answer_map)
        scores == Scores(answer_map, kept)
    IN  IF answer_ids # <<>> /\ answer_ids[1] \notin DOMAIN answer_map
            THEN CalcRaised("Invalid answer IDs for this quiz")
        ELSE IF scores = <<>>
            THEN CalcRaised("No answers provided")
        ELSE [how |-> "returned",
              result_type |-> scores[MaxKey(scores)].result_type,
              score |-> scores[MaxKey(scores)].score, err |-> NULL]

\* a calculate_result that scores an empty list as zero
CalculateResultEmptyScored(quiz, order, answer_ids) ==
    LET answer_map == AnswerMap(quiz, order)
        scores == Scores(answer_map, answer_ids)
    IN  IF InvalidIds(answer_map, answer_ids) # {}
            THEN CalcRaised("Invalid answer IDs for this quiz")
        ELSE IF scores = <<>>
            THEN [how |-> "returned", result_type |-> NULL, score |-> 0,
                  err |-> NULL]
        ELSE [how |-> "returned",
              result_type |-> scores[MaxKey(scores)].result_type,
              score |-> scores[MaxKey(scores)].score, err |-> NULL]

\* calculate_result(quiz, answer_ids), the quiz loaded in some order
CalculateResult(quiz, order, answer_ids) ==
    LET answer_map == AnswerMap(quiz, order)
        scores == Scores(answer_map, answer_ids)
    IN  IF InvalidIds(answer_map, answer_ids) # {}
            THEN CalcRaised("Invalid answer IDs for this quiz")
        ELSE IF scores = <<>>
            THEN CalcRaised("No answers provided")
        ELSE [how |-> "returned",
              result_type |-> scores[MaxKey(scores)].result_type,
              score |-> scores[MaxKey(scores)].score, err |-> NULL]

\* a call of calculate_result for the quiz at hand
Calculate(order, answer_ids) ==
    /\ last.op \in {"quiz", "calculate"}
    /\ LET result == CalculateResult(last.quiz, order, answer_ids)
           \* how many calls in a row were made with these answer ids
           repeats == IF last.op = "calculate" /\ last.answer_ids = answer_ids
                          THEN IF last.ret < MaxRepeats THEN last.ret + 1
                                                        ELSE MaxRepeats
                          ELSE 1
       IN  last' = [Outcome("calculate", result.how, 0, 0, repeats,
                            result.err)
                       EXCEPT !.quiz = last.quiz,
                              !.answer_ids = answer_ids,
                              !.result_type = result.result_type,
                              !.score = result.score]
    /\ UNCHANGED <<payments, results, mintTxs, metadata, nextPaymentId,
                   nextTxId, chainMints, proc, returned, redis, saved, quizzes, nextResultId, nextQuizId>>

QuizStep ==
    \E order \in LoadOrders(last.quiz), answer_ids \in AnswerIdLists :
        Calculate(order, answer_ids)

\* a quiz is stored, nothing else is
InitQuiz ==
    /\ payments = Empty
    /\ results = Empty
    /\ quizzes = QuizIds
    /\ nextQuizId = Cardinality(QuizIds) + 1
    /\ nextResultId = 1
    /\ mintTxs = Empty
    /\ metadata = {}
    /\ nextPaymentId = 1
    /\ nextTxId = 1
    /\ chainMints = [r \in Results |-> 0]
    /\ proc = [p \in Procs |-> IdleProc]
    /\ \E quiz \in Quizzes : last = [NoCall EXCEPT !.op = "quiz", !.quiz = quiz]
    /\ returned = [r \in Results |-> {}]
    /\ redis = Empty
    /\ saved = [u \in Users |-> 0]

SpecQuiz == InitQuiz /\ [][QuizStep]_vars

\* ----------------------------------------------------------- StorageService
\* how many requests in a row the provider's answers are given for
MaxRequests == 2

\* result["IpfsHash"]
\* response.status of a refused request, and await response.text()

\* what the provider does with one request: a response with a status and a
\* body (for status 200 a JSON object, with key IpfsHash or without), or
\* the request raising
Answers ==
    {[kind |-> "response", status |-> 200, text |-> NULL, IpfsHash |-> h] :
        h \in {"QmA", "QmB", NULL}}
    \cup {[kind |-> "response", status |-> st, text |-> t,
           IpfsHash |-> NULL] : st \in {401, 500},
               t \in {"Unauthorized", "Internal Server Error"}}
    \cup {[kind |-> "exception", status |-> 0,
           text |-> "ClientConnectionError", IpfsHash |-> NULL]}

\* the answers the provider gives to the first, second, ... request
AnswerLists == [1..MaxRequests -> Answers]

\* what a call of the storage service comes to
StorageResult(how, ret, err, text, requests) ==
    [how |-> how, ret |-> ret, err |-> err, text |-> text,
     requests |-> requests]

\* an upload that sends the request again when the provider refused it
UploadRepeats(answers, message) ==
    LET Try(response, n) ==
            IF response.kind = "exception"
                THEN StorageResult("raised", NULL, response.text, NULL, n)
            ELSE IF response.status # 200
                THEN StorageResult("raised", NULL, message, response.text, n)
            ELSE IF response.IpfsHash = NULL
                THEN StorageResult("raised", NULL, "KeyError", NULL, n)
            ELSE StorageResult("returned", response.IpfsHash, NULL, NULL, n)
    IN  IF answers[1].kind = "response" /\ answers[1].status # 200
            THEN Try(answers[2], 2)
            ELSE Try(answers[1], 1)

\* session.post(...) once; a status other than 200 raises
\* Exception(f"{message}: {error_text}"); an exception of the request or of
\* result["IpfsHash"] goes through the except clause, which raises it again
Upload(answers, message) ==
    LET response == answers[1]
    IN  IF response.kind = "exception"
            THEN StorageResult("raised", NULL, response.text, NULL, 1)
        ELSE IF response.status # 200
            THEN StorageResult("raised", NULL, message, response.text, 1)
        ELSE IF response.IpfsHash = NULL
            THEN StorageResult("raised", NULL, "KeyError", NULL, 1)
        ELSE StorageResult("returned", response.IpfsHash, NULL, NULL, 1)

\* an unpin_file whose except clause raises again
UnpinRaises(answers) ==
    LET response == answers[1]
    IN  IF response.kind = "exception"
            THEN StorageResult("raised", NULL, response.text, NULL, 1)
            ELSE StorageResult("returned", NULL, NULL, NULL, 1)

\* session.delete(...) once; the status is logged, an exception is logged
Unpin(answers) == StorageResult("returned", NULL, NULL, NULL, 1)

\* the outcome of a call of the storage service
StorageCall(op, answers, result) ==
    /\ last' = [Outcome(op, result.how, 0, 0, 0, result.err)
                   EXCEPT !.answers = answers, !.requests = result.requests,
                          !.text = result.text, !.ipfs_hash = result.ret]
    /\ UNCHANGED <<payments, results, mintTxs, metadata, nextPaymentId,
                   nextTxId, chainMints, proc, returned, redis, saved, quizzes, nextResultId, nextQuizId>>

UploadImage(answers) ==
    StorageCall("upload_image", answers,
                Upload(answers, "Failed to upload image"))

UploadJson(answers) ==
    StorageCall("upload_json", answers,
                Upload(answers, "Failed to upload JSON"))

UnpinFile(answers) == StorageCall("unpin_file", answers, Unpin(answers))

StorageStep ==
    \E answers \in AnswerLists :
        \/ UploadImage(answers)
        \/ UploadJson(answers)
        \/ UnpinFile(answers)

SpecStorage == Database(QuizIds) /\ [][StorageStep]_vars

\* ------------------------------------------------------------- StateService
\* how many calls of save_answer are made after one start_quiz, and how
\* many answers a session holds at most
MaxSaved == 2

\* the handlers that are inside save_answer for user_id
Saving(user_id) ==
    {p \in Handlers : proc[p].op = "save_answer" /\ proc[p].user = user_id}

\* what the calls of the state service leave alone
OnlyRedis ==
    UNCHANGED <<payments, results, mintTxs, metadata, nextPaymentId,
                nextTxId, chainMints, returned, quizzes, nextResultId, nextQuizId>>

\* start_quiz: redis.set(key, json.dumps(session_data), ex=default_ttl)
\* whatever the key holds; a session that is stored is replaced.  json.dumps
\* and json.loads keep the integers and the list of integers of a session as
\* they are.
StartQuiz(user_id, quiz_id) ==
    /\ redis' = (user_id :> [quiz_id |-> quiz_id, current_question |-> 0,
                               answers |-> <<>>]) @@ redis
    /\ saved' = [saved EXCEPT ![user_id] = 0]
    /\ last' = [Outcome("start_quiz", "returned", quiz_id, 0, 0, NULL)
                   EXCEPT !.user = user_id]
    /\ UNCHANGED proc
    /\ OnlyRedis

\* clear_quiz_session: redis.delete(key), of a key that is stored or not
ClearQuizSession(user_id) ==
    /\ redis' = [u \in DOMAIN redis \ {user_id} |-> redis[u]]
    /\ last' = [Outcome("clear_quiz_session", "returned", 0, 0, 0, NULL)
                   EXCEPT !.user = user_id]
    /\ UNCHANGED <<proc, saved>>
    /\ OnlyRedis

\* ex=default_ttl of both SETs: 1800 s after the last SET of a key the
\* store drops it
ExpireSession(user_id) ==
    /\ user_id \in DOMAIN redis
    /\ redis' = [u \in DOMAIN redis \ {user_id} |-> redis[u]]
    /\ UNCHANGED <<proc, saved, last>>
    /\ OnlyRedis

\* save_answer up to its second await: get_quiz_session reads the key, the
\* answer is appended to the copy the call holds
\* (session["answers"].append(answer_id); session["current_question"] += 1)
SaveAnswer(p, user_id, answer_id) ==
    /\ Free(p)
    /\ saved[user_id] + Cardinality(Saving(user_id)) < MaxSaved
    /\ user_id \in DOMAIN redis => Len(redis[user_id].answers) < MaxSaved
    /\ IF user_id \notin DOMAIN redis
         THEN Ends(p, [Outcome("save_answer", "raised", answer_id, 0, 0,
                               "No active quiz session")
                          EXCEPT !.user = user_id])
         ELSE Continues(p, [IdleProc EXCEPT !.op = "save_answer",
                  !.pc = "save_set", !.user = user_id,
                  !.session = [redis[user_id] EXCEPT
                      !.answers = Append(@, answer_id),
                      !.current_question = @ + 1]])
    /\ UNCHANGED <<redis, saved, quizzes, nextResultId, nextQuizId>>
    /\ OnlyRedis

\* redis.set(key, json.dumps(session)): the copy replaces what is stored
SaveAnswerSet(p) ==
    /\ proc[p].pc = "save_set"
    /\ redis' = (proc[p].user :> proc[p].session) @@ redis
    /\ saved' = [saved EXCEPT ![proc[p].user] = @ + 1]
    /\ Ends(p, [Outcome("save_answer", "returned",
                        proc[p].session.answers[
                            Len(proc[p].session.answers)], 0, 0, NULL)
                   EXCEPT !.user = proc[p].user])
    /\ OnlyRedis

SessionStep ==
    \/ \E u \in Users, quiz_id \in QuizIds : StartQuiz(u, quiz_id)
    \/ \E p \in Handlers, u \in Users, a \in {1, 2} : SaveAnswer(p, u, a)
    \/ \E p \in Handlers : SaveAnswerSet(p)
    \/ \E u \in Users : ClearQuizSession(u)
    \/ \E u \in Users : ExpireSession(u)

SpecSession == Database(QuizIds) /\ [][SessionStep]_vars

\* ================================================================= claims
\* C1: for every quiz result, over all interleavings of mint starts by the
\* bot's successful-payment handler and the API confirm endpoint, of retries
\* and of duplicated payment callbacks, the chain mint call succeeds at most
\* once.
C1_ChainMintAtMostOnce == \A r \in Results : chainMints[r] <= 1

\* a result is minted on the chain and a further mint start for it has just
\* been refused by the transaction table
C1_Witness ==
    /\ last.op = "mint" /\ last.how = "raised"
    /\ last.err = "IntegrityError"
    /\ chainMints[last.r] = 1

\* committed payments of result r that are pending or paid
ActiveCommitted(r) ==
    {i \in DOMAIN payments :
        payments[i].result_id = r /\ payments[i].status \in ActiveStatuses}

AllIdle == \A p \in Procs : proc[p].pc = "idle"

\* C2: concurrent calls of create_mint_payment for one result, each in its
\* own transaction, return one and the same payment id, and once they are
\* over exactly that payment is the pending or paid row of the result.
C2_OneActivePaymentSameId ==
    \A r \in Results :
        /\ Cardinality(returned[r]) <= 1
        /\ Cardinality(ActiveCommitted(r)) <= 1
        /\ (AllIdle /\ returned[r] # {}) => ActiveCommitted(r) = returned[r]

\* a call that lost the race for the index has returned the winner's row
C2_Witness ==
    /\ last.op = "create" /\ last.how = "returned" /\ last.err = "race"
    /\ returned[last.r] = {last.ret}
    /\ ActiveCommitted(last.r) = {last.ret}

\* C3: in every reachable state of the payment service, whatever the
\* interleaving of create_mint_payment, handle_successful_payment,
\* mark_payment_failed and refund_payment, a result has at most one
\* committed payment in status pending or paid.
C3_AtMostOneActivePayment ==
    \A r \in Results : Cardinality(ActiveCommitted(r)) <= 1

\* a late payment callback for a failed payment has been refused because
\* the result has another active payment
C3_Witness ==
    /\ last.op = "hsp" /\ last.how = "raised" /\ last.err = "IntegrityError"
    /\ payments[last.arg].status \notin ActiveStatuses
    /\ Cardinality(ActiveCommitted(last.r)) = 1

\* C4: a call of handle_successful_payment that changes the payment leaves
\* it paid with a paid_at, and a call made for a payment that is paid
\* already (the repeated callback, with the same token and charge ids)
\* changes nothing: status, paid_at and charge ids stay as the first call
\* set them.
C4_SecondCallNoOp ==
    [][\A p \in Procs :
          (proc[p].op = "hsp" /\ proc'[p] # proc[p]) =>
              /\ proc[p].startedPaid => payments' = payments
              /\ (payments' # payments) =>
                    /\ payments'[proc[p].pid].status = "paid"
                    /\ payments'[proc[p].pid].paid_at # NoTime]_vars

\* the repeated callback has returned and the payment is as it was paid
C4_Witness ==
    /\ last.op = "hsp" /\ last.how = "returned"
    /\ last.err = "already marked as paid"
    /\ payments[last.arg].status = "paid"
    /\ payments[last.arg].paid_at # NoTime
    /\ payments[last.arg].telegram_payment_charge_id # NULL

\* the statuses of a mint in progress
InProgressStatuses ==
    {"pending", "uploading_image", "uploading_metadata", "minting"}

\* result r has a transaction in progress, committed or in the open
\* database transaction of a handler other than p
MintInProgress(p, r) ==
    \/ \E j \in DOMAIN mintTxs :
          mintTxs[j].result_id = r /\ mintTxs[j].status \in InProgressStatuses
    \/ \E q \in Procs \ {p} : \E j \in DOMAIN proc[q].tx :
          /\ proc[q].tx[j].result_id = r
          /\ proc[q].tx[j].status \in InProgressStatuses

\* handler p, the bot's successful-payment handler or the API confirm
\* endpoint, starts mint_nft in this step
StartsMint(p) ==
    /\ proc[p].pc \in {"bot_answer", "confirm_tx"}
    /\ proc'[p].pc = "mint_insert"

\* C5: while a result has a MintTransaction in status pending,
\* uploading_image, uploading_metadata or minting, a mint start for that
\* result does not go on to mint_nft: it is answered 'already in progress'.
C5_NoSecondMintStart ==
    [][\A p \in Procs :
          StartsMint(p) => ~MintInProgress(p, proc'[p].r)]_vars

\* C6: in every committed state a result's nft_minted flag is set exactly
\* when a MintTransaction of the result has status completed.
C6_MintedIffCompleted ==
    \A r \in DOMAIN results :
        results[r].nft_minted <=>
            \E j \in DOMAIN mintTxs :
                mintTxs[j].result_id = r /\ mintTxs[j].status = "completed"

\* a mint has completed
C6_Witness ==
    \E j \in DOMAIN mintTxs :
        /\ mintTxs[j].status = "completed"
        /\ results[mintTxs[j].result_id].nft_minted
        /\ chainMints[mintTxs[j].result_id] = 1

\* the status changes of a payment the specification allows
PaymentTransitions ==
    {<<"pending", "paid">>, <<"pending", "failed">>, <<"paid", "refunded">>}

\* C7: every change of a committed payment's status made by the payment
\* service is pending -> paid, pending -> failed or paid -> refunded; a
\* failed or refunded payment keeps its status.
C7_PaymentTransitions ==
    [][\A i \in DOMAIN payments :
          payments'[i].status # payments[i].status =>
              <<payments[i].status, payments'[i].status>>
                  \in PaymentTransitions]_vars

\* the transactions there are, committed or in an open database transaction
KnownTxs == DOMAIN mintTxs \cup UNION {DOMAIN proc[q].tx : q \in Procs}

\* the current status of transaction j: the version of the session that
\* holds the row, else the committed one
TxStatus(j) ==
    IF \E q \in Procs : j \in DOMAIN proc[q].tx
        THEN proc[CHOOSE q \in Procs : j \in DOMAIN proc[q].tx].tx[j].status
        ELSE mintTxs[j].status

\* the place of a status on the chain
\* pending -> uploading_image -> uploading_metadata -> minting -> completed
TxRank(s) ==
    CASE s = "pending" -> 1
      [] s = "uploading_image" -> 2
      [] s = "uploading_metadata" -> 3
      [] s = "minting" -> 4
      [] s = "completed" -> 5
      [] OTHER -> 0

\* forward along the chain, to failed from a status that is not completed,
\* or failed -> pending
TxMoveAllowed(s, t) ==
    \/ TxRank(s) > 0 /\ TxRank(t) > TxRank(s)
    \/ t = "failed" /\ s # "completed"
    \/ s = "failed" /\ t = "pending"

\* C8: a MintTransaction's status moves forward along the chain or to
\* failed; the only move back is failed -> pending, and a completed
\* transaction keeps its status.
C8_TxForwardOnly ==
    [][\A j \in KnownTxs :
          (j \in KnownTxs' /\ TxStatus(j)' # TxStatus(j)) =>
              TxMoveAllowed(TxStatus(j), TxStatus(j)')]_vars

\* the statuses result.py documents for MintTransaction.status
DocumentedTxStatuses ==
    {"pending", "uploading_image", "uploading_metadata", "minting",
     "completed", "failed"}

\* C9: in every reachable state the status of every MintTransaction,
\* committed or flushed by a running pipeline, is one of pending,
\* uploading_image, uploading_metadata, minting, completed, failed.
C9_TxStatusDocumented ==
    \A j \in KnownTxs : TxStatus(j) \in DocumentedTxStatuses

\* the errors of the steps of a mint attempt
StepErrors ==
    {"image generation failed", "Failed to upload image",
     "Generated metadata is invalid", "Failed to upload JSON",
     "Wallet unhealthy", "TimeoutError", "MissingGreenlet",
     "DetachedInstanceError"}

\* C10: when a step of a mint attempt raises, mint_nft raises that error
\* to its caller and the attempt's MintTransaction is committed with status
\* failed and an error_message that is set and is not the empty string.
C10_StepFailurePersisted ==
    (last.op = "mint" /\ last.how = "raised" /\ last.err \in StepErrors) =>
        /\ last.ret \in DOMAIN mintTxs
        /\ mintTxs[last.ret].status = "failed"
        /\ mintTxs[last.ret].error_message \notin {NULL, ""}
        /\ \A p \in Procs : last.ret \notin DOMAIN proc[p].tx

\* C11: a mint attempt that ends failed because one of its steps raised
\* leaves the result's nft_minted false and its nft_address unset.
C11_FailedMintLeavesResultUnminted ==
    (last.op = "mint" /\ last.how = "raised" /\ last.err \in StepErrors) =>
        /\ ~results[last.r].nft_minted
        /\ results[last.r].nft_address = NULL

\* the image upload of an attempt has just failed
C11_Witness ==
    /\ last.op = "mint" /\ last.how = "raised"
    /\ last.err = "Failed to upload image"
    /\ mintTxs[last.ret].status = "failed"
    /\ ~results[last.r].nft_minted

\* C12: when the wallet health check reports unhealthy the attempt fails
\* without a chain mint call having been made for the result, no NFT
\* address is stored, and the MintTransaction is committed as failed.
C12_UnhealthyWalletNoChainCall ==
    (last.op = "mint" /\ last.how = "raised"
        /\ last.err = "Wallet unhealthy") =>
            /\ chainMints[last.r] = 0
            /\ mintTxs[last.ret].status = "failed"
            /\ mintTxs[last.ret].nft_address = NULL
            /\ results[last.r].nft_address = NULL

\* an attempt has just failed on the wallet health check
C12_Witness ==
    /\ last.op = "mint" /\ last.how = "raised"
    /\ last.err = "Wallet unhealthy"
    /\ mintTxs[last.ret].status = "failed"
    /\ \E m \in metadata : m.result_id = last.r

\* the errors retry_failed_mint raises for a transaction it may not retry
RetryRefusals == {"MintTransaction not found", "Cannot retry transaction"}

\* C13: retry_failed_mint for a transaction that does not exist or whose
\* status is not failed raises, changes no row and no attribute of the
\* transaction, and runs no pipeline step; a retry that goes on is one of
\* a failed transaction.
C13_RetryOnlyFromFailed ==
    [][/\ \A p \in Procs :
            (proc[p].pc = "idle" /\ proc'[p].pc = "retry_flush") =>
                /\ proc'[p].txid \in DOMAIN mintTxs
                /\ mintTxs[proc'[p].txid].status = "failed"
       /\ (last'.op = "retry" /\ proc' = proc
             /\ (last'.arg \notin DOMAIN mintTxs
                   \/ mintTxs[last'.arg].status # "failed")) =>
                /\ last'.how = "raised"
                /\ last'.err \in RetryRefusals
                /\ last'.obj = Empty
                /\ mintTxs' = mintTxs
                /\ proc' = proc]_vars

\* the retry of a completed transaction has just been refused
C13_Witness ==
    /\ last.op = "retry" /\ last.how = "raised"
    /\ last.err = "Cannot retry transaction"
    /\ mintTxs[last.arg].status = "completed"
    /\ mintTxs[last.arg].retry_count = 0

\* C14: retry_failed_mint of a failed transaction with retry budget left
\* flushes the row with retry_count one higher, no error_message and status
\* pending, and the pipeline then runs from step 1 on that row: no other
\* row is inserted for the result.
C14_RetryRerunsOnSameRow ==
    [][\A p \in Procs :
          /\ (proc[p].pc = "retry_flush" /\ proc'[p].pc = "mint_insert") =>
                LET j == proc[p].txid
                IN  /\ proc'[p].tx[j].status = "pending"
                    /\ proc'[p].tx[j].error_message = NULL
                    /\ proc'[p].tx[j].retry_count
                           = mintTxs[j].retry_count + 1
          /\ (proc[p].via = "retry" /\ proc[p].pc = "mint_insert"
                /\ proc'[p] # proc[p]) =>
                    /\ proc'[p].pc = "mint_image"
                    /\ proc'[p].txid \in DOMAIN proc[p].tx
                    /\ DOMAIN proc'[p].tx = DOMAIN proc[p].tx
                    /\ nextTxId' = nextTxId]_vars

\* C15: a failed mint with retry budget left is recoverable: a retry whose
\* external calls all succeed ends with the transaction completed and the
\* result marked minted, so a retried attempt ends either on the error of
\* an external step or completed.
C15_RetryRecovers ==
    [][\A p \in Procs :
          (proc[p].via = "retry" /\ proc[p].pc # "idle"
              /\ proc'[p].pc = "idle") =>
                \/ last'.err \in StepErrors
                \/ /\ last'.how = "returned"
                   /\ results'[proc[p].r].nft_minted
                   /\ \E j \in DOMAIN mintTxs' :
                         /\ mintTxs'[j].result_id = proc[p].r
                         /\ mintTxs'[j].status = "completed"]_vars

\* a retry of a failed transaction has passed its checks and is at its flush
RetryLetThrough == \E p \in Procs : proc[p].pc = "retry_flush"

CreateCases(user_id, result_id, provider) ==
    (IF provider \notin {"telegram_stars", "ton_connect"}
        THEN {"Invalid payment provider"} ELSE {})
    \cup (IF provider = "telegram_stars" /\ ~STARS_ENABLED
        THEN {"Telegram Stars payments are disabled"} ELSE {})
    \cup (IF provider = "ton_connect" /\ ~TON_PAYMENT_ENABLED
        THEN {"TON payments are disabled"} ELSE {})
    \cup (IF result_id \notin DOMAIN results
        THEN {"Quiz result not found"}
        ELSE (IF results[result_id].user_id # user_id
                 THEN {"User does not own this quiz result"} ELSE {})
             \cup (IF results[result_id].nft_minted
                 THEN {"NFT already minted for this result"} ELSE {}))

\* C17: create_mint_payment called with an unknown or disabled provider,
\* for a result that does not exist, is not the user's or is minted, raises
\* the error of one of the cases that hold and creates and changes no
\* Payment row; a call that returns a payment or goes on to insert one is
\* in none of these cases.
C17_CreateRejectsBadArguments ==
    [][/\ (last'.op = "create" /\ proc' = proc) =>
            LET cases == CreateCases(last'.user, last'.arg, last'.provider)
            IN  IF cases # {}
                    THEN /\ last'.how = "raised"
                         /\ last'.err \in cases
                         /\ payments' = payments
                         /\ nextPaymentId' = nextPaymentId
                         /\ returned' = returned
                    ELSE last'.how = "returned"
       /\ \A p \in Procs :
            (proc[p].pc = "idle" /\ proc'[p].pc = "create_query") =>
                CreateCases(proc'[p].user, proc'[p].r, proc'[p].provider)
                    = {}]_vars

\* a payment for a minted result has just been refused
C17_Witness ==
    /\ last.op = "create" /\ last.how = "raised"
    /\ last.err = "NFT already minted for this result"
    /\ results[last.arg].nft_minted
    /\ last.user = results[last.arg].user_id

\* a call of create_mint_payment that finds a pending or paid payment of its
\* result returns it, changes no row and inserts none, and a call goes on to
\* insert only when it found none
LookupReturnsExisting ==
    \A p \in Procs :
        (proc[p].pc = "create_query" /\ proc'[p] # proc[p]) =>
            IF ActiveCommitted(proc[p].r) # {}
                THEN /\ last'.how = "returned"
                     /\ last'.ret \in ActiveCommitted(proc[p].r)
                     /\ payments' = payments
                     /\ nextPaymentId' = nextPaymentId
                ELSE proc'[p].pc = "create_flush"

\* C18 as stated: whenever the result has a pending or paid payment, a
\* call of create_mint_payment for it, whatever its arguments, gets to the
\* look-up and returns that payment, changes no row and inserts none.
C18_ExistingReturnedAlways ==
    [][/\ ~(/\ last'.op = "create" /\ proc' = proc
            /\ last'.arg \in DOMAIN results
            /\ ActiveCommitted(last'.arg) # {})
       /\ LookupReturnsExisting]_vars

\* C18: when the arguments of the call pass the validation (known and
\* enabled provider, the user's own unminted result) and the look-up finds a
\* pending or paid payment of the result, create_mint_payment returns that
\* payment, changes no field of any payment and inserts no row.
C18_ExistingReturnedUnchanged ==
    [][/\ \A p \in Procs :
            (proc[p].pc = "idle" /\ proc'[p].pc = "create_query") =>
                CreateCases(proc'[p].user, proc'[p].r, proc'[p].provider)
                    = {}
       /\ LookupReturnsExisting]_vars

\* the paid payment of a result has just been returned to a further call
C18_Witness ==
    /\ last.op = "create" /\ last.how = "returned"
    /\ last.err = "existing"
    /\ payments[last.ret].status = "paid"
    /\ nextPaymentId = 2

\* C19: a create_mint_payment call whose insert was refused by the index on
\* active payments ends by returning a payment row of its result, with no
\* error, whatever the other payment operations did in between.
C19_LoserReturnsWinnersRow ==
    [][\A p \in Procs :
         (proc[p].pc = "create_requery" /\ proc'[p].pc = "idle") =>
             /\ last'.op = "create"
             /\ last'.how = "returned"
             /\ last'.ret \in DOMAIN payments
             /\ payments[last'.ret].result_id = proc[p].r]_vars

\* C20: refund_payment goes on to its write only for a payment it reads as
\* paid, and then stores the payment with status refunded and every other
\* field as it was; for a payment it reads in any other status, or does not
\* find, it raises and no payment changes.
C20_RefundOnlyFromPaid ==
    [][/\ \A p \in Procs :
            /\ (proc[p].pc = "idle" /\ proc'[p].pc = "refund_flush") =>
                   /\ proc'[p].pid \in DOMAIN payments
                   /\ payments[proc'[p].pid].status = "paid"
            /\ (proc[p].pc = "refund_commit" /\ proc'[p].pc = "idle") =>
                   /\ last'.op = "refund" /\ last'.how = "returned"
                   /\ payments' = [payments EXCEPT
                                     ![proc[p].pid].status = "refunded"]
       /\ (last'.op = "refund" /\ proc' = proc) =>
              /\ last'.how = "raised"
              /\ payments' = payments
              /\ \/ last'.arg \notin DOMAIN payments
                 \/ payments[last'.arg].status # "paid"]_vars

\* payment 1 has been refunded, and a refund of payment 2, which is pending,
\* has just been refused
C20_Witness ==
    /\ last.op = "refund" /\ last.how = "raised"
    /\ last.err = "Cannot refund payment"
    /\ last.arg \in DOMAIN payments
    /\ payments[last.arg].status = "pending"
    /\ \E i \in DOMAIN payments : payments[i].status = "refunded"

\* what a payload names when both of its ids parse
WellFormed(invoice_payload) ==
    LET parts == Split(invoice_payload, "_")
    IN  PayloadShapeOk(parts) /\ IsIntStr(parts[3]) /\ IsIntStr(parts[4])
TokenPaymentId(invoice_payload) == ParseInt(Split(invoice_payload, "_")[3])
TokenResultId(invoice_payload) == ParseInt(Split(invoice_payload, "_")[4])

\* the payment part of the conditions of a valid pre-checkout
PaymentAccepts(invoice_payload) ==
    /\ WellFormed(invoice_payload)
    /\ TokenPaymentId(invoice_payload) \in DOMAIN payments
    /\ payments[TokenPaymentId(invoice_payload)].result_id
           = TokenResultId(invoice_payload)
    /\ payments[TokenPaymentId(invoice_payload)].status = "pending"

\* the result part of the conditions
ResultAccepts(r) == r \in DOMAIN results /\ ~results[r].nft_minted

\* C21: handle_pre_checkout always returns and never raises or writes; it
\* goes on to read the result exactly when the token is well formed and names
\* an existing pending payment of the result in the token, and then answers
\* ok = true exactly when that result exists and is not minted; every other
\* answer is ok = false with a reason.
C21_PreCheckoutVerdict ==
    [][/\ \A p \in Procs :
            /\ (proc[p].pc = "idle" /\ proc'[p].pc = "pre_checkout_result") =>
                   /\ PaymentAccepts(proc'[p].payload)
                   /\ proc'[p].r = TokenResultId(proc'[p].payload)
            /\ (proc[p].pc = "pre_checkout_result" /\ proc'[p].pc = "idle") =>
                   /\ last'.op = "pre_checkout" /\ last'.how = "returned"
                   /\ last'.payload = proc[p].payload
                   /\ last'.ok <=> ResultAccepts(proc[p].r)
                   /\ last'.ok <=> last'.err = NULL
                   /\ <<payments, results, mintTxs, metadata>>'
                          = <<payments, results, mintTxs, metadata>>
       /\ (last'.op = "pre_checkout" /\ proc' = proc) =>
              /\ last'.how = "returned"
              /\ ~last'.ok /\ last'.err # NULL
              /\ ~PaymentAccepts(last'.payload)
              /\ <<payments, results, mintTxs, metadata>>'
                     = <<payments, results, mintTxs, metadata>>]_vars

\* a pre-checkout of a pending payment of an unminted result was answered
\* ok = true
C21_Witness ==
    /\ last.op = "pre_checkout" /\ last.how = "returned" /\ last.ok
    /\ last.arg \in DOMAIN payments
    /\ payments[last.arg].status = "pending"
    /\ ~results[last.r].nft_minted

\* the payload is the one create_stars_invoice builds for some payment
BuiltPayload(invoice_payload) ==
    \E i \in TokenIds, r \in TokenIds :
        invoice_payload = InvoicePayload(i, r)

\* C22: the payload built for a payment parses back in both parsers to that
\* payment's id and result id, and both parsers reject every payload of any
\* other shape.
C22_TokenRoundTrip ==
    last.op = "parse" =>
        IF BuiltPayload(last.payload)
            THEN \A i \in TokenIds, r \in TokenIds :
                    last.payload = InvoicePayload(i, r) =>
                        /\ last.parsed.pre.ok /\ last.parsed.hsp.ok
                        /\ last.parsed.pre.payment_id = i
                        /\ last.parsed.pre.result_id = r
                        /\ last.parsed.hsp.payment_id = i
                        /\ last.parsed.hsp.result_id = r
            ELSE ~last.parsed.pre.ok /\ ~last.parsed.hsp.ok

\* the weight the supplied answers give a result type, and the place of the
\* first supplied answer of that type
RECURSIVE Weight(_, _, _)
Weight(quiz, answer_ids, c) ==
    IF answer_ids = <<>> THEN 0
    ELSE (IF quiz[Head(answer_ids)].result_type = c
              THEN quiz[Head(answer_ids)].weight ELSE 0)
         + Weight(quiz, Tail(answer_ids), c)
Supplied(quiz, answer_ids) ==
    {quiz[answer_ids[i]].result_type : i \in DOMAIN answer_ids}
FirstSeen(quiz, answer_ids, c) ==
    CHOOSE i \in DOMAIN answer_ids :
        /\ quiz[answer_ids[i]].result_type = c
        /\ \A j \in 1..(i - 1) : quiz[answer_ids[j]].result_type # c
ValidCall(c) ==
    /\ c.op = "calculate"
    /\ c.answer_ids # <<>>
    /\ \A i \in DOMAIN c.answer_ids : c.answer_ids[i] \in DOMAIN c.quiz

\* C23: for a non-empty list of answer ids of the quiz, calculate_result
\* returns a supplied result type whose accumulated weight no other type
\* exceeds, with that weight as the score; of the types that share the top
\* weight it returns the one met first in the list.
C23_HighestWeightWins ==
    ValidCall(last) =>
        /\ last.how = "returned"
        /\ last.result_type \in Supplied(last.quiz, last.answer_ids)
        /\ last.score = Weight(last.quiz, last.answer_ids, last.result_type)
        /\ \A c \in Supplied(last.quiz, last.answer_ids) :
              /\ Weight(last.quiz, last.answer_ids, c) <= last.score
              /\ (c # last.result_type
                    /\ Weight(last.quiz, last.answer_ids, c) = last.score) =>
                     FirstSeen(last.quiz, last.answer_ids, last.result_type)
                         < FirstSeen(last.quiz, last.answer_ids, c)

\* two result types shared the top weight, one of them by adding up two
\* answers, and the call returned
C23_Witness ==
    /\ ValidCall(last) /\ last.how = "returned"
    /\ Len(last.answer_ids) = 3
    /\ \E c \in Supplied(last.quiz, last.answer_ids) :
          /\ c # last.result_type
          /\ Weight(last.quiz, last.answer_ids, c) = last.score

\* C24: a call of calculate_result with the quiz and the answer id list of
\* the call before it has the same outcome, however the quiz was loaded, and
\* no call changes the store.
C24_Deterministic ==
    [][/\ (last.op = "calculate" /\ last'.op = "calculate"
             /\ last'.quiz = last.quiz
             /\ last'.answer_ids = last.answer_ids) =>
                /\ last'.how = last.how
                /\ last'.result_type = last.result_type
                /\ last'.score = last.score
                /\ last'.err = last.err
       /\ last'.op = "calculate" =>
              <<payments, results, mintTxs, metadata, proc>>'
                  = <<payments, results, mintTxs, metadata, proc>>]_vars

\* the same tied answers were scored twice in a row
C24_Witness ==
    /\ ValidCall(last) /\ last.how = "returned"
    /\ last.ret = MaxRepeats
    /\ \E c \in Supplied(last.quiz, last.answer_ids) :
          /\ c # last.result_type
          /\ Weight(last.quiz, last.answer_ids, c) = last.score

\* C25: a call with at least one answer id that is not of the quiz raises
\* the invalid-answer error and returns no result, whatever the other ids.
C25_InvalidAnswerRejected ==
    (last.op = "calculate"
       /\ \E i \in DOMAIN last.answer_ids :
              last.answer_ids[i] \notin DOMAIN last.quiz) =>
        /\ last.how = "raised"
        /\ last.err = "Invalid answer IDs for this quiz"
        /\ last.result_type = NULL /\ last.score = 0

\* a list that begins with answers of the quiz and holds a foreign id later
\* was refused
C25_Witness ==
    /\ last.op = "calculate" /\ last.how = "raised"
    /\ last.err = "Invalid answer IDs for this quiz"
    /\ Len(last.answer_ids) = 3
    /\ last.answer_ids[1] \in DOMAIN last.quiz
    /\ last.answer_ids[2] \in DOMAIN last.quiz
    /\ last.answer_ids[3] \notin DOMAIN last.quiz

\* C26: a call with an empty answer list raises the empty-answer error, for
\* every quiz.
C26_EmptyAnswersRejected ==
    (last.op = "calculate" /\ last.answer_ids = <<>>) =>
        /\ last.how = "raised"
        /\ last.err = "No answers provided"
        /\ last.result_type = NULL /\ last.score = 0

\* an empty list was refused for a quiz that has answers
C26_Witness ==
    /\ last.op = "calculate" /\ last.answer_ids = <<>>
    /\ last.how = "raised" /\ last.err = "No answers provided"
    /\ last.quiz # <<>>

\* handler p runs the mint attempt that inserted transaction t
AttemptOf(p, t) ==
    /\ proc[p].op = "mint"
    /\ proc[p].txid = t
    /\ t \in DOMAIN proc[p].tx

\* the statuses a finished attempt leaves
FinalStatuses == {"completed", "failed"}

\* C27: every mint attempt that has inserted its MintTransaction ends with
\* that transaction stored as completed or failed, also when an external
\* call fails or never answers, and no stored transaction is ever in
\* pending, uploading_image, uploading_metadata or minting.
C27_MintAttemptEnds ==
    /\ [](\A t \in DOMAIN mintTxs : mintTxs[t].status \in FinalStatuses)
    /\ \A p \in Handlers, t \in TxIds :
          AttemptOf(p, t) ~>
              (t \in DOMAIN mintTxs /\ mintTxs[t].status \in FinalStatuses)

\* C28: after a crash between two steps of a mint attempt, the stored
\* MintTransaction of the attempt has the status the attempt wrote last.
C28_CrashKeepsLastStatus ==
    [][last'.how = "crashed" =>
          /\ last'.arg \in DOMAIN mintTxs'
          /\ mintTxs'[last'.arg].status = last'.obj[last'.arg].status]_vars

\* C29: every stored MintTransaction that ended completed or failed carries
\* in payment_id the id of a Payment of its own result.
C29_MintLinkedToPayment ==
    \A t \in DOMAIN mintTxs :
        mintTxs[t].status \in FinalStatuses =>
            /\ mintTxs[t].payment_id \in DOMAIN payments
            /\ payments[mintTxs[t].payment_id].result_id
                   = mintTxs[t].result_id

\* C30: in every reachable state no result has two NFTMetadata rows; a
\* commit adds a row only for a result that had none; and a row that is
\* stored stays as it is, whatever later attempts do, for as long as its
\* result is stored.
C30_OneMetadataPerResult ==
    /\ [](\A m, n \in metadata : m.result_id = n.result_id => m = n)
    /\ [][\A m \in metadata' \ metadata :
              \A n \in metadata : n.result_id # m.result_id]_vars
    /\ [][\A m \in metadata :
              m.result_id \in DOMAIN results' => m \in metadata']_vars

\* a result's metadata is stored from a failed attempt, and a later attempt
\* for the result has just been refused
C30_Witness ==
    /\ last.op = "mint" /\ last.how = "raised"
    /\ last.err = "IntegrityError"
    /\ \E m \in metadata : m.result_id = last.r
    /\ \E t \in DOMAIN mintTxs :
          mintTxs[t].result_id = last.r /\ mintTxs[t].status = "failed"

\* C31: no entry point starts the mint pipeline for a result whose
\* nft_minted flag is already true.
C31_MintedResultNotStarted ==
    [][\A p \in Handlers :
          (proc[p].op # "mint" /\ proc'[p].op = "mint")
              => ~results[proc'[p].r].nft_minted]_vars

\* the provider refused the call's first request
Refused1 ==
    /\ last.op \in {"upload_image", "upload_json"}
    /\ last.answers[1].kind = "response"
    /\ last.answers[1].status # 200

\* C32: an upload whose request gets a status other than 200 raises an
\* error with the provider's text after one request.
C32_RefusedUploadRaisesOnce ==
    Refused1 =>
        /\ last.how = "raised"
        /\ last.err \in {"Failed to upload image", "Failed to upload JSON"}
        /\ last.text = last.answers[1].text
        /\ last.requests = 1

\* the first request was refused and a second one would have been accepted
C32_Witness ==
    /\ Refused1
    /\ last.answers[2].kind = "response"
    /\ last.answers[2].status = 200
    /\ last.answers[2].IpfsHash # NULL
    /\ last.how = "raised"

\* C33: unpin_file ends normally whatever the provider answers.
C33_UnpinNeverRaises ==
    last.op = "unpin_file" => last.how = "returned" /\ last.requests = 1

\* the request of an unpin_file raised
C33_Witness ==
    /\ last.op = "unpin_file"
    /\ last.answers[1].kind = "exception"
    /\ last.how = "returned"

\* some Payment of result r has been paid: paid_at is written when a payment
\* becomes paid and is kept by every later status
HasBeenPaid(r) ==
    \E i \in DOMAIN payments :
        payments[i].result_id = r /\ payments[i].paid_at # NoTime

\* C34: the bot's successful-payment handler and the API confirm endpoint
\* start a mint attempt for a result only when a Payment of the result has
\* been paid (the payments of a result go only when the result is deleted
\* with its quiz), so no chain mint of theirs comes before a payment.
C34_ChainMintOnlyAfterPaid ==
    [][\A p \in Handlers :
          /\ StartsMint(p) =>
                (proc'[p].r \in DOMAIN results => HasBeenPaid(proc'[p].r))
          /\ (proc[p].via \in {"bot", "api"} /\ proc[p].pc = "mint_chain"
                 /\ proc'[p] # proc[p]) =>
                (proc[p].r \in DOMAIN results => HasBeenPaid(proc[p].r))]_vars

\* the API endpoint has just started a mint attempt for a result whose
\* payment is paid
C34_Witness ==
    \E p \in Handlers :
        /\ proc[p].pc = "mint_insert" /\ proc[p].via = "api"
        /\ \E i \in DOMAIN payments :
              /\ payments[i].result_id = proc[p].r
              /\ payments[i].status = "paid"

\* C35: every stored NFTMetadata row belongs to a result whose
\* MintTransaction is completed.
C35_MetadataOnlyForCompleted ==
    \A m \in metadata :
        \E t \in DOMAIN mintTxs :
            /\ mintTxs[t].result_id = m.result_id
            /\ mintTxs[t].status = "completed"

\* the MintTransaction rows there are: the stored ones, the ones a session
\* has flushed, and the one the last call left modified in its session
TxRowsAnywhere ==
    {mintTxs[t] : t \in DOMAIN mintTxs}
    \cup UNION {{proc[p].tx[t] : t \in DOMAIN proc[p].tx} : p \in Procs}
    \cup {last.obj[t] : t \in DOMAIN last.obj}

Acts(p) == proc'[p] # proc[p]

\* the operations that call handle_successful_payment
HspOps == {"hsp", "bot_paid"}

\* C37: the steps of a call of handle_successful_payment, up to the commit
\* of its session, leave every QuizResult, every MintTransaction and every
\* Payment other than the one the payload names as they are.
C37_HspChangesOnlyItsPayment ==
    [][\A p \in Handlers :
          Acts(p) /\ (proc[p].op \in HspOps \/ proc'[p].op \in HspOps) =>
              LET i == IF proc[p].op \in HspOps THEN proc[p].pid
                                                ELSE proc'[p].pid
              IN  /\ results' = results
                  /\ mintTxs' = mintTxs
                  /\ DOMAIN payments' = DOMAIN payments
                  /\ \A j \in DOMAIN payments \ {i} :
                        payments'[j] = payments[j]
                  /\ DOMAIN proc'[p].pay \subseteq {i}
                  /\ proc'[p].tx = Empty
                  /\ proc'[p].res = Empty]_vars

\* a call has flushed its payment as paid while another payment and a mint
\* transaction are stored
C37_Witness ==
    \E p \in Handlers :
        /\ proc[p].op \in HspOps /\ proc[p].pc = "hsp_commit"
        /\ DOMAIN proc[p].pay = {proc[p].pid}
        /\ proc[p].pay[proc[p].pid].status = "paid"
        /\ payments[proc[p].pid].status # "paid"
        /\ DOMAIN payments # {proc[p].pid}
        /\ mintTxs # Empty

\* the step is one of a call of handle_pre_checkout: the call is answered
\* in it, at once or after its second read, or goes on to the second read
PreCheckoutActs ==
    \/ last' # last /\ last'.op = "pre_checkout"
    \/ \E p \in Handlers :
          Acts(p) /\ (proc[p].op = "pre_checkout"
                         \/ proc'[p].op = "pre_checkout")

\* C38: no step of a call of handle_pre_checkout, whether the call accepts
\* the token or refuses it at any of its checks, changes a stored Payment,
\* QuizResult, MintTransaction or NFTMetadata, and the call's session
\* holds no written row.
C38_PreCheckoutChangesNothing ==
    [][PreCheckoutActs =>
          /\ payments' = payments
          /\ results' = results
          /\ mintTxs' = mintTxs
          /\ metadata' = metadata
          /\ \A p \in Handlers :
                proc'[p].op = "pre_checkout" =>
                    /\ proc'[p].pay = Empty
                    /\ proc'[p].tx = Empty
                    /\ proc'[p].res = Empty]_vars

\* a call with a token whose ids are not numbers has just been refused
\* while a payment, a result and a transaction are stored
C38_Witness ==
    /\ last.op = "pre_checkout" /\ ~last.ok
    /\ last.err = "Validation error"
    /\ payments # Empty /\ results # Empty /\ mintTxs # Empty

\* the stored payments of result r
PaymentsOf(r) == {i \in DOMAIN payments : payments[i].result_id = r}

\* C39: a call of create_mint_payment that begins when every payment of
\* its unminted result is failed or refunded returns a payment of the
\* result with an id no payment had when the call began, and the call that
\* inserts it stores it as pending; and no result ever has two stored
\* payments that are pending or paid, whatever callbacks arrive for old
\* payments.
C39_NewPaymentAfterInactive ==
    /\ [](\A r \in Results :
             Cardinality({i \in PaymentsOf(r) :
                 payments[i].status \in ActiveStatuses}) <= 1)
    /\ [][\A p \in Handlers :
             (/\ proc[p].op = "create" /\ proc[p].newFrom > 0
              /\ proc'[p].pc = "idle") =>
                 /\ last'.op = "create" /\ last'.how = "returned"
                 /\ last'.ret >= proc[p].newFrom
                 /\ last'.ret \in DOMAIN payments'
                 /\ payments'[last'.ret].result_id = proc[p].r
                 /\ last'.err = "created" =>
                       /\ last'.ret \notin DOMAIN payments
                       /\ payments'[last'.ret].status = "pending"]_vars

\* C40: when no call of save_answer is under way for a user, the stored
\* session holds as many answers as calls of save_answer have returned
\* for it, and current_question is that number.
C40_EachSaveAddsOne ==
    \A u \in DOMAIN redis :
        Saving(u) = {} =>
            /\ Len(redis[u].answers) = saved[u]
            /\ redis[u].current_question = saved[u]

====
